---- MODULE Spec2Model ----
(***************************************************************************)
(* Model of the rule-execution engine of k8s-manifests-lint:               *)
(*   pkg/linter/registry.go   the process-wide registry and factories      *)
(*   pkg/linter/runner.go     NewRunner (setup) and Runner.Run (evaluate)  *)
(*   pkg/linters/jq/jq.go     the expression rule kind                     *)
(*   pkg/linters/resource_limits.go  the resource-limits built-in          *)
(*   pkg/config/config.go     Load defaults and Validate                   *)
(*                                                                         *)
(* Go values of dynamic type (map[string]interface{} settings) are tagged  *)
(* records: Str, Bool, Arr, Obj.  A Go map is a function whose DOMAIN is   *)
(* the key set.  fmt.Sprintf(f, a) is the tuple <<f, a>>.                  *)
(***************************************************************************)
EXTENDS Integers, Sequences, FiniteSets, TLC

\* ------------------------------------------------------------------------
\* Bounds of the model
\* ------------------------------------------------------------------------
MaxRuns == 2          \* NewRunner calls in one process
MaxDocs == 2          \* documents handed to one Run
MaxConcurrency == 1   \* largest run.concurrency a config file sets
MaxReaders == 2       \* concurrent callers of All, Names and Get
MaxWriters == 2       \* concurrent callers of Register

\* ------------------------------------------------------------------------
\* Dynamic values
\* ------------------------------------------------------------------------
Str(x) == [t |-> "string", v |-> x]
Bool(b) == [t |-> "bool", v |-> IF b THEN "true" ELSE "false"]
Arr(s) == [t |-> "array", a |-> s]
Obj(m) == [t |-> "object", m |-> m]
EmptyMap == [k \in {} |-> Str("")]

IsString(m, k) == k \in DOMAIN m /\ m[k].t = "string"
IsBool(m, k) == k \in DOMAIN m /\ m[k].t = "bool"
IsArray(m, k) == k \in DOMAIN m /\ m[k].t = "array"

\* Severity constants
SeverityFatal == "fatal"
SeverityError == "error"
SeverityWarning == "warning"
SeverityInfo == "info"

\* unstructured.Unstructured: Object is a map shared by every copy of the
\* struct.  containers sit at the structural path cpath (a sequence of field
\* names, <<>> when the document has none); scalarAt is a path at which the
\* document holds a string where an object is usual (<<>> when it has none);
\* configMaps are the names .spec.template.spec.volumes[].configMap.name.
Doc(av, k, ns, n, ls, cp, cs) ==
    [apiVersion |-> av, kind |-> k, namespace |-> ns, name |-> n,
     labels |-> ls, cpath |-> cp, containers |-> cs,
     scalarAt |-> <<>>, configMaps |-> <<>>]

Container(n, present, lim, req) ==
    [name |-> n, hasResources |-> present, limits |-> lim, requests |-> req]

PodPath == <<"spec", "containers">>
TemplatePath == <<"spec", "template", "spec", "containers">>
CronJobPath == <<"spec", "jobTemplate", "spec", "template", "spec", "containers">>

DeployWeb ==
    [Doc("apps/v1", "Deployment", "kube-system", "web", {}, TemplatePath,
         <<Container("app", FALSE, {}, {}),
           Container("sidecar", TRUE, {"memory"}, {"cpu"})>>)
     EXCEPT !.configMaps = <<"cfg-a">>]
CmA == Doc("v1", "ConfigMap", "", "cfg-a", {"app"}, <<>>, <<>>)

DocPool == {DeployWeb, CmA}

RECURSIVE SeqsUpTo(_, _)
SeqsUpTo(S, n) ==
    IF n = 0 THEN {<<>>}
    ELSE LET shorter == SeqsUpTo(S, n - 1)
         IN shorter \cup {Append(s, x) : s \in {q \in shorter : Len(q) = n - 1}, x \in S}

\* common.ResourceRef / the literal in jq.go
ResourceRef(obj) ==
    [APIVersion |-> obj.apiVersion, Kind |-> obj.kind,
     Namespace |-> obj.namespace, Name |-> obj.name]

Issue(sev, l, msg, obj, field, sugg) ==
    [Severity |-> sev, Linter |-> l, Message |-> msg,
     Resource |-> ResourceRef(obj), Field |-> field, Suggestion |-> sugg]

NoError == <<>>

\* ------------------------------------------------------------------------
\* Linter instances.  type selects the implementation of the Linter
\* interface: "jq" (jq.Linter), "resource-limits" (ResourceLimitsLinter),
\* "labeler" (an implementation outside the repository that writes to the
\* object it is given).  rules is jq.Linter.rules; cfg holds the fields of
\* ResourceLimitsLinter.
\* ------------------------------------------------------------------------
DefaultLimitsCfg ==
    [requireCPULimit |-> TRUE, requireMemoryLimit |-> TRUE,
     requireCPURequest |-> TRUE, requireMemoryRequest |-> TRUE,
     excludeNamespaces |-> <<>>]

Instance(ty, n) == [type |-> ty, name |-> n, rules |-> <<>>, cfg |-> DefaultLimitsCfg]

\* Factory.Create of the jq kind
JqFactoryCreate(name) == Instance("jq", name)

Rule(e, m, sev, f, sg) ==
    [Expression |-> e, Message |-> m, Severity |-> sev, Field |-> f, Suggestion |-> sg]

\* ---- jq.Linter.Configure ----------------------------------------------
RECURSIVE JqConfigureLoop(_, _, _)
JqConfigureLoop(rulesData, i, acc) ==
    IF i >= Len(rulesData) THEN [rules |-> acc, err |-> NoError]
    ELSE LET ruleData == rulesData[i + 1] IN
      IF ruleData.t # "object"
      THEN [rules |-> acc, err |-> <<"rule %d must be an object", i>>]
      ELSE LET ruleMap == ruleData.m IN
        IF ~IsString(ruleMap, "expression")
        THEN [rules |-> acc, err |-> <<"rule %d: expression is required", i>>]
        ELSE IF ~IsString(ruleMap, "message")
        THEN [rules |-> acc, err |-> <<"rule %d: message is required", i>>]
        ELSE JqConfigureLoop(rulesData, i + 1,
               Append(acc,
                 Rule(ruleMap["expression"].v,
                      ruleMap["message"].v,
                      IF IsString(ruleMap, "severity") THEN ruleMap["severity"].v
                                                       ELSE SeverityError,
                      IF IsString(ruleMap, "field") THEN ruleMap["field"].v ELSE "",
                      IF IsString(ruleMap, "suggestion") THEN ruleMap["suggestion"].v
                                                         ELSE "")))

\* variant of JqConfigure: the entry list is assigned only when every entry
\* was accepted, a failed Configure leaves the instance as it was
JqConfigureAtomic(l, settings) ==
    IF ~IsArray(settings, "rules")
    THEN [l |-> l, err |-> <<"rules must be an array">>]
    ELSE LET r == JqConfigureLoop(settings["rules"].a, 0, <<>>)
         IN IF r.err # NoError THEN [l |-> l, err |-> r.err]
            ELSE [l |-> [l EXCEPT !.rules = r.rules], err |-> NoError]

JqConfigure(l, settings) ==
    IF ~IsArray(settings, "rules")
    THEN [l |-> l, err |-> <<"rules must be an array">>]
    ELSE LET r == JqConfigureLoop(settings["rules"].a, 0, <<>>)
         IN [l |-> [l EXCEPT !.rules = r.rules], err |-> r.err]


\* variant of ResourceLimitsConfigure: the settings are decoded into a fresh
\* configuration, so a key the block omits falls back to its default
ResourceLimitsConfigureFresh(l, settings) ==
    [l |-> [l EXCEPT !.cfg =
              [requireCPULimit |-> IF IsBool(settings, "require-cpu-limit")
                                   THEN settings["require-cpu-limit"].v = "true" ELSE TRUE,
               requireMemoryLimit |-> IF IsBool(settings, "require-memory-limit")
                                      THEN settings["require-memory-limit"].v = "true" ELSE TRUE,
               requireCPURequest |-> IF IsBool(settings, "require-cpu-request")
                                     THEN settings["require-cpu-request"].v = "true" ELSE TRUE,
               requireMemoryRequest |-> IF IsBool(settings, "require-memory-request")
                                        THEN settings["require-memory-request"].v = "true"
                                        ELSE TRUE,
               excludeNamespaces |-> <<>>]],
     err |-> NoError]

\* ---- ResourceLimitsLinter.Configure -------------------------------------
RECURSIVE StringsOf(_)
StringsOf(v) ==
    IF v = <<>> THEN <<>>
    ELSE IF Head(v).t = "string" THEN <<Head(v).v>> \o StringsOf(Tail(v))
    ELSE StringsOf(Tail(v))

BoolSetting(settings, key, old) ==
    IF IsBool(settings, key) THEN settings[key].v = "true" ELSE old

ResourceLimitsConfigure(l, settings) ==
    [l |-> [l EXCEPT !.cfg =
              [requireCPULimit |-> BoolSetting(settings, "require-cpu-limit", @.requireCPULimit),
               requireMemoryLimit |-> BoolSetting(settings, "require-memory-limit", @.requireMemoryLimit),
               requireCPURequest |-> BoolSetting(settings, "require-cpu-request", @.requireCPURequest),
               requireMemoryRequest |-> BoolSetting(settings, "require-memory-request", @.requireMemoryRequest),
               excludeNamespaces |-> IF IsArray(settings, "exclude-namespaces")
                                     THEN StringsOf(settings["exclude-namespaces"].a)
                                     ELSE @.excludeNamespaces]],
     err |-> NoError]

\* Linter.Configure, dispatched on the dynamic type of the instance
Configure(l, settings) ==
    CASE l.type = "jq" -> JqConfigure(l, settings)
      [] l.type = "resource-limits" -> ResourceLimitsConfigure(l, settings)
      [] OTHER -> [l |-> l, err |-> NoError]

\* ------------------------------------------------------------------------
\* gojq, by its behaviour on the expressions used here.  code.Run is given
\* the input nil, so "." is null; the document is $object and the document
\* list is $objects.  A value of the result stream is written as its JSON
\* text ("true", "false", "null", "0", a quoted string) or is an error value.
\* ------------------------------------------------------------------------
ExprTrue == "true"
ExprNull == "null"
ExprFalse == "false"
ExprEmpty == "empty"
ExprKubeNs == "$object.metadata.namespace | startswith(\"kube-\")"
ExprNoAppLabel == "$object.metadata.labels.app == null"
ExprUnlabelled == "any($objects[]; .metadata.labels.app == null)"
ExprBadSyntax == ".["
ExprUndefVar == "$missing"
ExprZero == "0"
ExprFalseThenTrue == "false, true"
ExprEachKind == "$objects[] | .kind"
ExprTrueThenFail == "true, (null | startswith(\"kube-\"))"
\* the expression of the configmap-exists rule of docs/custom-linters.md
ExprConfigMapExists ==
    "$object.kind == \"Deployment\" and ($object.spec.template.spec.volumes[]? | select(.configMap) | .configMap.name) as $cmName | ($objects | map(select(.kind == \"ConfigMap\" and .metadata.name == $cmName)) | length == 0)"

ErrStartswithNull == "startswith cannot be applied to: null"
JqErrors == {ErrStartswithNull}

JqBool(b) == IF b THEN "true" ELSE "false"

\* the JSON text of a string value
JqString(x) == "\"" \o x \o "\""

\* gojq.Parse: does the expression parse
JqParse(e) == e # ExprBadSyntax

\* gojq.Compile with the variables $objects and $object
JqCompile(e) == e # ExprUndefVar

\* code.Run(nil, allObjectsSlice, obj.Object): the result stream
JqRun(e, allObjects, obj) ==
    CASE e = ExprTrue -> <<"true">>
      [] e = ExprNull -> <<"null">>
      [] e = ExprFalse -> <<"false">>
      [] e = ExprEmpty -> <<>>
      [] e = ExprKubeNs ->
           IF obj.namespace = "" THEN <<ErrStartswithNull>>
           ELSE <<JqBool(obj.namespace \in {"kube-system", "kube-public"})>>
      [] e = ExprNoAppLabel -> <<JqBool("app" \notin obj.labels)>>
      [] e = ExprUnlabelled ->
           <<JqBool(\E i \in 1..Len(allObjects) : "app" \notin allObjects[i].labels)>>
      [] e = ExprZero -> <<"0">>
      [] e = ExprFalseThenTrue -> <<"false", "true">>
      [] e = ExprTrueThenFail -> <<"true", ErrStartswithNull>>
      [] e = ExprEachKind -> [i \in 1..Len(allObjects) |-> JqString(allObjects[i].kind)]
      [] e = ExprConfigMapExists ->
           \* "and" does not evaluate its right side when the left is false;
           \* the right side binds $cmName to each referenced name in turn
           IF obj.kind # "Deployment" THEN <<"false">>
           ELSE [i \in 1..Len(obj.configMaps) |->
                   JqBool(~\E j \in 1..Len(allObjects) :
                             /\ allObjects[j].kind = "ConfigMap"
                             /\ allObjects[j].name = obj.configMaps[i])]
      [] OTHER -> <<"null">>

\* variant of JqIterate: the number 0 counts as no match, like false
RECURSIVE JqIterateZeroFalsy(_)
JqIterateZeroFalsy(stream) ==
    IF stream = <<>> THEN [kind |-> "none", err |-> ""]
    ELSE LET result == Head(stream) IN
      IF result \in JqErrors THEN [kind |-> "error", err |-> result]
      ELSE IF result = "null" \/ result = "false" \/ result = "0"
      THEN JqIterateZeroFalsy(Tail(stream))
      ELSE [kind |-> "issue", err |-> ""]

\* the for loop over iter.Next() in jq.Linter.Lint
RECURSIVE JqIterate(_)
JqIterate(stream) ==
    IF stream = <<>> THEN [kind |-> "none", err |-> ""]
    ELSE LET result == Head(stream) IN
      IF result \in JqErrors THEN [kind |-> "error", err |-> result]
      ELSE IF result = "null" \/ result = "false" THEN JqIterate(Tail(stream))
      ELSE [kind |-> "issue", err |-> ""]

\* variant of JqLintLoop: the loop over the result stream does not stop at
\* the first match, every matching value adds an issue
RECURSIVE JqLintLoopAllMatches(_, _, _, _, _)
JqLintLoopAllMatches(l, k, allObjects, obj, issues) ==
    IF k > Len(l.rules) THEN [issues |-> issues, err |-> NoError]
    ELSE LET rule == l.rules[k] IN
      IF ~JqParse(rule.Expression)
      THEN [issues |-> <<>>,
            err |-> <<"failed to parse jq expression %q: %w", rule.Expression>>]
      ELSE IF ~JqCompile(rule.Expression)
      THEN [issues |-> <<>>,
            err |-> <<"failed to compile jq expression %q: %w", rule.Expression>>]
      ELSE LET stream == JqRun(rule.Expression, allObjects, obj)
               r == JqIterate(stream)
               matches == Cardinality({i \in 1..Len(stream) :
                                         stream[i] \notin {"null", "false"}})
           IN
        CASE r.kind = "error" ->
               [issues |-> <<>>,
                err |-> <<"jq expression %q failed: %w", rule.Expression, r.err>>]
          [] OTHER ->
               JqLintLoopAllMatches(l, k + 1, allObjects, obj,
                 issues \o [i \in 1..matches |->
                              Issue(rule.Severity, l.name, <<rule.Message>>, obj,
                                    <<rule.Field>>, rule.Suggestion)])

\* variant of JqLintLoop: an error returns the issues collected so far
\* along with it
RECURSIVE JqLintLoopKeepPartial(_, _, _, _, _)
JqLintLoopKeepPartial(l, k, allObjects, obj, issues) ==
    IF k > Len(l.rules) THEN [issues |-> issues, err |-> NoError]
    ELSE LET rule == l.rules[k] IN
      IF ~JqParse(rule.Expression)
      THEN [issues |-> issues,
            err |-> <<"failed to parse jq expression %q: %w", rule.Expression>>]
      ELSE IF ~JqCompile(rule.Expression)
      THEN [issues |-> issues,
            err |-> <<"failed to compile jq expression %q: %w", rule.Expression>>]
      ELSE LET r == JqIterate(JqRun(rule.Expression, allObjects, obj)) IN
        CASE r.kind = "error" ->
               [issues |-> issues,
                err |-> <<"jq expression %q failed: %w", rule.Expression, r.err>>]
          [] r.kind = "issue" ->
               JqLintLoopKeepPartial(l, k + 1, allObjects, obj,
                 Append(issues, Issue(rule.Severity, l.name, <<rule.Message>>, obj,
                                      <<rule.Field>>, rule.Suggestion)))
          [] OTHER -> JqLintLoopKeepPartial(l, k + 1, allObjects, obj, issues)

\* ---- jq.Linter.Lint ----------------------------------------------------
RECURSIVE JqLintLoop(_, _, _, _, _)
JqLintLoop(l, k, allObjects, obj, issues) ==
    IF k > Len(l.rules) THEN [issues |-> issues, err |-> NoError]
    ELSE LET rule == l.rules[k] IN
      IF ~JqParse(rule.Expression)
      THEN [issues |-> <<>>,
            err |-> <<"failed to parse jq expression %q: %w", rule.Expression>>]
      ELSE IF ~JqCompile(rule.Expression)
      THEN [issues |-> <<>>,
            err |-> <<"failed to compile jq expression %q: %w", rule.Expression>>]
      ELSE LET r == JqIterate(JqRun(rule.Expression, allObjects, obj)) IN
        CASE r.kind = "error" ->
               [issues |-> <<>>,
                err |-> <<"jq expression %q failed: %w", rule.Expression, r.err>>]
          [] r.kind = "issue" ->
               JqLintLoop(l, k + 1, allObjects, obj,
                 Append(issues, Issue(rule.Severity, l.name, <<rule.Message>>, obj,
                                      <<rule.Field>>, rule.Suggestion)))
          [] OTHER -> JqLintLoop(l, k + 1, allObjects, obj, issues)

\* variant of JqLint: the document list of the context is not handed to
\* the expression, $objects is the empty list
JqLintNoObjects(l, allObjects, obj) == JqLintLoop(l, 1, <<>>, obj, <<>>)

JqLint(l, allObjects, obj) == JqLintLoop(l, 1, allObjects, obj, <<>>)

\* ---- ResourceLimitsLinter.Lint ------------------------------------------
Workloads == {"Deployment", "StatefulSet", "DaemonSet", "Job", "CronJob"}

\* a proper prefix of the path p
IsProperPrefix(q, p) == Len(q) < Len(p) /\ q = SubSeq(p, 1, Len(q))

ErrExpectedObject == <<"expected an object but got: string">>

\* k8s.Query of a path expression: indexing a string with a field name is an
\* error value of the result stream, indexing null gives null.  The result
\* is tagged with its dynamic type.
Query(obj, path) ==
    IF obj.scalarAt # <<>> /\ IsProperPrefix(obj.scalarAt, path)
    THEN [type |-> "nil", value |-> <<>>, err |-> ErrExpectedObject]
    ELSE IF obj.scalarAt = path
    THEN [type |-> "string", value |-> <<>>, err |-> NoError]
    ELSE IF obj.cpath = path
    THEN [type |-> "array", value |-> obj.containers, err |-> NoError]
    ELSE [type |-> "nil", value |-> <<>>, err |-> NoError]

\* variant of GetContainers: the switch has no default branch for the
\* pod-template kinds, a kind other than CronJob, Pod and Deployment is an error
GetContainersNoDefault(obj) ==
    IF obj.kind \notin {"CronJob", "Pod", "Deployment"}
    THEN [containers |-> <<>>, err |-> <<"unsupported kind %q", obj.kind>>]
    ELSE LET query == CASE obj.kind = "CronJob" -> CronJobPath
                        [] obj.kind = "Pod" -> PodPath
                        [] OTHER -> TemplatePath
             r == Query(obj, query)
         IN IF r.err # NoError THEN [containers |-> <<>>, err |-> r.err]
            ELSE IF r.type = "array" THEN [containers |-> r.value, err |-> NoError]
            ELSE [containers |-> <<>>, err |-> NoError]

\* k8s.GetContainers: the query of the kind, then the type switch
GetContainers(obj) ==
    LET query == CASE obj.kind = "CronJob" -> CronJobPath
                   [] obj.kind = "Pod" -> PodPath
                   [] OTHER -> TemplatePath
        r == Query(obj, query)
    IN IF r.err # NoError THEN [containers |-> <<>>, err |-> r.err]
       ELSE IF r.type = "nil" THEN [containers |-> <<>>, err |-> NoError]
       ELSE IF r.type = "array" THEN [containers |-> r.value, err |-> NoError]
       ELSE [containers |-> <<>>, err |-> NoError]

InSeq(x, s) == \E i \in 1..Len(s) : s[i] = x

\* the four checks of a container that has a resources block
MissingFieldIssues(l, obj, i, c) ==
      (IF l.cfg.requireCPULimit /\ "cpu" \notin c.limits
       THEN <<Issue(SeverityError, l.name, <<"Container %q missing CPU limit", c.name>>, obj,
                    <<"spec.template.spec.containers[%d].resources.limits.cpu", i>>,
                    "Add: resources.limits.cpu: \"1000m\"")>>
       ELSE <<>>)
      \o
      (IF l.cfg.requireMemoryLimit /\ "memory" \notin c.limits
       THEN <<Issue(SeverityError, l.name, <<"Container %q missing memory limit", c.name>>, obj,
                    <<"spec.template.spec.containers[%d].resources.limits.memory", i>>,
                    "Add: resources.limits.memory: \"512Mi\"")>>
       ELSE <<>>)
      \o
      (IF l.cfg.requireCPURequest /\ "cpu" \notin c.requests
       THEN <<Issue(SeverityError, l.name, <<"Container %q missing CPU request", c.name>>, obj,
                    <<"spec.template.spec.containers[%d].resources.requests.cpu", i>>,
                    "Add: resources.requests.cpu: \"100m\"")>>
       ELSE <<>>)
      \o
      (IF l.cfg.requireMemoryRequest /\ "memory" \notin c.requests
       THEN <<Issue(SeverityError, l.name, <<"Container %q missing memory request", c.name>>, obj,
                    <<"spec.template.spec.containers[%d].resources.requests.memory", i>>,
                    "Add: resources.requests.memory: \"256Mi\"")>>
       ELSE <<>>)

NoRequirementsIssue(l, obj, i, c) ==
    Issue(SeverityError, l.name,
          <<"Container %q has no resource requirements", c.name>>, obj,
          <<"spec.template.spec.containers[%d].resources", i>>,
          "Add resources.requests and resources.limits")

\* variant of ContainerIssues: no continue after the Finding of a container
\* without resources block, the four checks run on empty limits and requests
ContainerIssuesNoContinue(l, obj, i, c) ==
    IF ~c.hasResources
    THEN <<NoRequirementsIssue(l, obj, i, c)>>
         \o MissingFieldIssues(l, obj, i, [c EXCEPT !.limits = {}, !.requests = {}])
    ELSE MissingFieldIssues(l, obj, i, c)

\* the body of the loop over the containers
ContainerIssues(l, obj, i, c) ==
    IF ~c.hasResources
    THEN <<NoRequirementsIssue(l, obj, i, c)>>
    ELSE MissingFieldIssues(l, obj, i, c)

RECURSIVE ResourceLimitsLoop(_, _, _, _)
ResourceLimitsLoop(l, obj, containers, i) ==
    IF i >= Len(containers) THEN <<>>
    ELSE ContainerIssues(l, obj, i, containers[i + 1])
         \o ResourceLimitsLoop(l, obj, containers, i + 1)

ResourceLimitsLint(l, obj) ==
    IF obj.kind \notin Workloads THEN [issues |-> <<>>, err |-> NoError]
    ELSE IF InSeq(obj.namespace, l.cfg.excludeNamespaces)
    THEN [issues |-> <<>>, err |-> NoError]
    ELSE LET c == GetContainers(obj)
         IN IF c.err # NoError THEN [issues |-> <<>>, err |-> c.err]
            ELSE [issues |-> ResourceLimitsLoop(l, obj, c.containers, 0), err |-> NoError]

\* ---- a Linter that writes a default label into the object ---------------
\* obj is passed by value, but obj.Object is a map: the write lands in the
\* map that the caller's slice element and every other copy refer to.
LabelerWrite(obj) == [obj EXCEPT !.labels = @ \cup {"app"}]

\* variant of Lint: the context of a call carries the document of the call
\* alone, not the document list of the run
LintOwnDocument(l, allObjects, obj) ==
    CASE l.type = "jq" ->
           LET r == JqLint(l, <<obj>>, obj)
           IN [issues |-> r.issues, err |-> r.err, obj |-> obj]
      [] l.type = "resource-limits" ->
           LET r == ResourceLimitsLint(l, obj)
           IN [issues |-> r.issues, err |-> r.err, obj |-> obj]
      [] OTHER -> [issues |-> <<>>, err |-> NoError, obj |-> LabelerWrite(obj)]

\* Linter.Lint, dispatched on the dynamic type of the instance.  obj is the
\* content of the shared Object map when the call returns.
Lint(l, allObjects, obj) ==
    CASE l.type = "jq" ->
           LET r == JqLint(l, allObjects, obj)
           IN [issues |-> r.issues, err |-> r.err, obj |-> obj]
      [] l.type = "resource-limits" ->
           LET r == ResourceLimitsLint(l, obj)
           IN [issues |-> r.issues, err |-> r.err, obj |-> obj]
      [] OTHER -> [issues |-> <<>>, err |-> NoError, obj |-> LabelerWrite(obj)]

\* ------------------------------------------------------------------------
\* Registry (registry.go).  registry.linters is a map from name to linter;
\* factories is a map from linter type to factory.
\* ------------------------------------------------------------------------
\* the names that occur, in the byte order sort.Strings uses
NameOrder ==
    <<"", "a-labeler", "cm-check", "configmap-exists", "jq", "nope", "resource-limits">>

NameRank(n) == CHOOSE i \in 1..Len(NameOrder) : NameOrder[i] = n

StringLess(a, b) == NameRank(a) < NameRank(b)

\* sort.Strings
RECURSIVE SortStrings(_)
SortStrings(S) ==
    IF S = {} THEN <<>>
    ELSE LET least == CHOOSE x \in S : \A y \in S \ {x} : StringLess(x, y)
         IN <<least>> \o SortStrings(S \ {least})

\* variant of Register: a name that is taken keeps its linter
RegisterKeepFirst(reg, l) ==
    [n \in DOMAIN reg \cup {l.name} |-> IF n \in DOMAIN reg THEN reg[n] ELSE l]

\* Register: registry.linters[linter.Name()] = linter
Register(reg, l) ==
    [n \in DOMAIN reg \cup {l.name} |-> IF n = l.name THEN l ELSE reg[n]]

\* variant of All: the names are walked from the greatest to the least
RECURSIVE SortStringsDescending(_)
SortStringsDescending(S) ==
    IF S = {} THEN <<>>
    ELSE LET greatest == CHOOSE x \in S : \A y \in S \ {x} : StringLess(y, x)
         IN <<greatest>> \o SortStringsDescending(S \ {greatest})

AllDescending(reg) == SortStringsDescending(DOMAIN reg)

\* All: the registered linters in ascending order of name.  A linter is
\* referred to by its name; the instance is reg[name].
All(reg) == SortStrings(DOMAIN reg)

\* Names: the keys of registry.linters, sorted
Names(reg) == SortStrings(DOMAIN reg)

\* Get: the linter under the name, or an error
Get(reg, name) ==
    IF name \in DOMAIN reg
    THEN [out |-> <<reg[name]>>, err |-> NoError]
    ELSE [out |-> <<>>, err |-> <<"linter %q not found", name>>]

\* CreateLinter
CreateLinter(facts, linterType, name) ==
    IF linterType \notin facts
    THEN [l |-> Instance("", name),
          err |-> <<"no factory registered for linter type %q", linterType>>]
    ELSE [l |-> JqFactoryCreate(name), err |-> NoError]

\* the init() functions: jq.go registers the "jq" linter and its factory,
\* resource_limits.go registers "resource-limits" with every check required
InitRegistry ==
    Register(Register([n \in {} |-> Instance("", "")], Instance("jq", "jq")),
             Instance("resource-limits", "resource-limits"))

InitFactories == {"jq"}

\* ------------------------------------------------------------------------
\* NewRunner (runner.go).  The result carries the registry as NewRunner
\* leaves it, the names of the runner's linters, the error, and the list of
\* Configure calls made: [name, phase, ok].
\* ------------------------------------------------------------------------
Nil == [t |-> "nil"]

ToSet(s) == {s[i] : i \in 1..Len(s)}


\* variant of CustomLoop: a declaration whose type has no factory is skipped
RECURSIVE CustomLoopSkipUnknown(_, _, _, _, _)
CustomLoopSkipUnknown(decls, k, facts, reg, calls) ==
    IF k > Len(decls) THEN [reg |-> reg, err |-> NoError, calls |-> calls]
    ELSE LET customLinter == decls[k] IN
      IF customLinter.Name = ""
      THEN [reg |-> reg, err |-> <<"custom linter name is required">>, calls |-> calls]
      ELSE IF customLinter.Type = ""
      THEN [reg |-> reg,
            err |-> <<"custom linter %q: type is required", customLinter.Name>>,
            calls |-> calls]
      ELSE LET c == CreateLinter(facts, customLinter.Type, customLinter.Name) IN
        IF c.err # NoError
        THEN CustomLoopSkipUnknown(decls, k + 1, facts, reg, calls)
        ELSE IF customLinter.Settings # Nil
        THEN LET r == Configure(c.l, customLinter.Settings.m)
                 log == Append(calls, [name |-> customLinter.Name, phase |-> "custom",
                                       ok |-> r.err = NoError])
             IN IF r.err # NoError
                THEN [reg |-> reg,
                      err |-> <<"failed to configure custom linter %q: %w",
                                customLinter.Name>> \o r.err,
                      calls |-> log]
                ELSE CustomLoopSkipUnknown(decls, k + 1, facts, Register(reg, r.l), log)
        ELSE CustomLoopSkipUnknown(decls, k + 1, facts, Register(reg, c.l), calls)

\* the loop over config.CustomLinters
RECURSIVE CustomLoop(_, _, _, _, _)
CustomLoop(decls, k, facts, reg, calls) ==
    IF k > Len(decls) THEN [reg |-> reg, err |-> NoError, calls |-> calls]
    ELSE LET customLinter == decls[k] IN
      IF customLinter.Name = ""
      THEN [reg |-> reg, err |-> <<"custom linter name is required">>, calls |-> calls]
      ELSE IF customLinter.Type = ""
      THEN [reg |-> reg,
            err |-> <<"custom linter %q: type is required", customLinter.Name>>,
            calls |-> calls]
      ELSE LET c == CreateLinter(facts, customLinter.Type, customLinter.Name) IN
        IF c.err # NoError
        THEN [reg |-> reg,
              err |-> <<"failed to create custom linter %q: %w", customLinter.Name>> \o c.err,
              calls |-> calls]
        ELSE IF customLinter.Settings # Nil
        THEN LET r == Configure(c.l, customLinter.Settings.m)
                 log == Append(calls, [name |-> customLinter.Name, phase |-> "custom",
                                       ok |-> r.err = NoError])
             IN IF r.err # NoError
                THEN [reg |-> reg,
                      err |-> <<"failed to configure custom linter %q: %w",
                                customLinter.Name>> \o r.err,
                      calls |-> log]
                ELSE CustomLoop(decls, k + 1, facts, Register(reg, r.l), log)
        ELSE CustomLoop(decls, k + 1, facts, Register(reg, c.l), calls)


\* variant of SelectLoop: the disable list is consulted only when there is
\* no enable list, so a rule named in both stays active
RECURSIVE SelectLoopEnableWins(_, _, _, _, _, _)
SelectLoopEnableWins(all, k, config, reg, linters, calls) ==
    IF k > Len(all)
    THEN [reg |-> reg, linters |-> linters, err |-> NoError, calls |-> calls]
    ELSE LET name == all[k]
             enabledMap == ToSet(config.EnabledLinters)
             disabledMap == ToSet(config.DisabledLinters)
         IN
      IF enabledMap # {} /\ name \notin enabledMap
      THEN SelectLoopEnableWins(all, k + 1, config, reg, linters, calls)
      ELSE IF enabledMap = {} /\ name \in disabledMap
      THEN SelectLoopEnableWins(all, k + 1, config, reg, linters, calls)
      ELSE IF name \in DOMAIN config.Settings
      THEN LET r == Configure(reg[name], config.Settings[name])
               reg2 == [reg EXCEPT ![name] = r.l]
               log == Append(calls, [name |-> name, phase |-> "select",
                                     ok |-> r.err = NoError])
           IN IF r.err # NoError
              THEN [reg |-> reg2, linters |-> <<>>,
                    err |-> <<"failed to configure linter %q: %w", name>> \o r.err,
                    calls |-> log]
              ELSE SelectLoopEnableWins(all, k + 1, config, reg2, Append(linters, name), log)
      ELSE SelectLoopEnableWins(all, k + 1, config, reg, Append(linters, name), calls)

\* variant of SelectLoop: a rule that has a settings block is configured
\* before the enable and disable lists are consulted
RECURSIVE SelectLoopConfigureFirst(_, _, _, _, _, _)
SelectLoopConfigureFirst(all, k, config, reg, linters, calls) ==
    IF k > Len(all)
    THEN [reg |-> reg, linters |-> linters, err |-> NoError, calls |-> calls]
    ELSE LET name == all[k]
             enabledMap == ToSet(config.EnabledLinters)
             disabledMap == ToSet(config.DisabledLinters)
             has == name \in DOMAIN config.Settings
             r == IF has THEN Configure(reg[name], config.Settings[name])
                         ELSE [l |-> reg[name], err |-> NoError]
             reg2 == [reg EXCEPT ![name] = r.l]
             log == IF has THEN Append(calls, [name |-> name, phase |-> "select",
                                               ok |-> r.err = NoError])
                           ELSE calls
         IN
      IF r.err # NoError
      THEN [reg |-> reg2, linters |-> <<>>,
            err |-> <<"failed to configure linter %q: %w", name>> \o r.err,
            calls |-> log]
      ELSE IF enabledMap # {} /\ name \notin enabledMap
      THEN SelectLoopConfigureFirst(all, k + 1, config, reg2, linters, log)
      ELSE IF name \in disabledMap
      THEN SelectLoopConfigureFirst(all, k + 1, config, reg2, linters, log)
      ELSE SelectLoopConfigureFirst(all, k + 1, config, reg2, Append(linters, name), log)

\* the loop over All(); Configure works on the registered instance itself
RECURSIVE SelectLoop(_, _, _, _, _, _)
SelectLoop(all, k, config, reg, linters, calls) ==
    IF k > Len(all)
    THEN [reg |-> reg, linters |-> linters, err |-> NoError, calls |-> calls]
    ELSE LET name == all[k]
             enabledMap == ToSet(config.EnabledLinters)
             disabledMap == ToSet(config.DisabledLinters)
         IN
      IF enabledMap # {} /\ name \notin enabledMap
      THEN SelectLoop(all, k + 1, config, reg, linters, calls)
      ELSE IF name \in disabledMap
      THEN SelectLoop(all, k + 1, config, reg, linters, calls)
      ELSE IF name \in DOMAIN config.Settings
      THEN LET r == Configure(reg[name], config.Settings[name])
               reg2 == [reg EXCEPT ![name] = r.l]
               log == Append(calls, [name |-> name, phase |-> "select",
                                     ok |-> r.err = NoError])
           IN IF r.err # NoError
              THEN [reg |-> reg2, linters |-> <<>>,
                    err |-> <<"failed to configure linter %q: %w", name>> \o r.err,
                    calls |-> log]
              ELSE SelectLoop(all, k + 1, config, reg2, Append(linters, name), log)
      ELSE SelectLoop(all, k + 1, config, reg, Append(linters, name), calls)

\* variant of NewRunnerResult: a NewRunner that fails puts the registry back
\* to what it was when NewRunner was called
NewRunnerResultRollback(config, facts, reg) ==
    LET c == CustomLoop(config.CustomLinters, 1, facts, reg, <<>>) IN
    IF c.err # NoError
    THEN [reg |-> reg, ok |-> FALSE, linters |-> <<>>, err |-> c.err, calls |-> c.calls]
    ELSE LET s == SelectLoop(All(c.reg), 1, config, c.reg, <<>>, c.calls)
         IN [reg |-> IF s.err = NoError THEN s.reg ELSE reg, ok |-> s.err = NoError,
             linters |-> s.linters, err |-> s.err, calls |-> s.calls]

NewRunnerResult(config, facts, reg) ==
    LET c == CustomLoop(config.CustomLinters, 1, facts, reg, <<>>) IN
    IF c.err # NoError
    THEN [reg |-> c.reg, ok |-> FALSE, linters |-> <<>>, err |-> c.err, calls |-> c.calls]
    ELSE LET s == SelectLoop(All(c.reg), 1, config, c.reg, <<>>, c.calls)
         IN [reg |-> s.reg, ok |-> s.err = NoError, linters |-> s.linters,
             err |-> s.err, calls |-> s.calls]

\* Runner.Run as a function of the rule instances, the runner's linters and
\* the objects: the nested loops from object d and linter l on, with the
\* issues acc collected so far
RECURSIVE RunOutcome(_, _, _, _, _, _)
RunOutcome(reg, linters, objs, d, l, acc) ==
    IF d > Len(objs) THEN [issues |-> acc, err |-> NoError]
    ELSE IF l > Len(linters) THEN RunOutcome(reg, linters, objs, d + 1, 1, acc)
    ELSE LET name == linters[l]
             obj == objs[d]
             r == Lint(reg[name], objs, obj)
         IN IF r.err # NoError
            THEN [issues |-> acc,
                  err |-> <<"linter %q failed on %s/%s: %w", name, obj.kind, obj.name>>
                          \o r.err]
            ELSE RunOutcome(reg, linters, [objs EXCEPT ![d] = r.obj], d, l + 1,
                            acc \o r.issues)

\* ------------------------------------------------------------------------
\* Inputs: run specifications and documents
\* ------------------------------------------------------------------------
Entry(e, msg) ==
    Obj([k \in {"expression", "message"} |-> IF k = "expression" THEN Str(e) ELSE Str(msg)])

EntrySev(e, msg, sev) ==
    Obj([k \in {"expression", "message", "severity"} |->
           CASE k = "expression" -> Str(e)
             [] k = "message" -> Str(msg)
             [] OTHER -> Str(sev)])

EntryFull(e, msg, sev, field, sugg) ==
    Obj([k \in {"expression", "message", "severity", "field", "suggestion"} |->
           CASE k = "expression" -> Str(e)
             [] k = "message" -> Str(msg)
             [] k = "severity" -> Str(sev)
             [] k = "field" -> Str(field)
             [] OTHER -> Str(sugg)])

RulesBlock(entries) == [k \in {"rules"} |-> Arr(entries)]

CustomLinter(n, ty, s) == [Name |-> n, Type |-> ty, Settings |-> s]

\* a custom rule whose second entry fails on a document without namespace
DeclCheck ==
    CustomLinter("cm-check", "jq",
                 Obj(RulesBlock(<<EntrySev(ExprTrue, "checked", SeverityInfo),
                                  EntrySev(ExprKubeNs, "system namespace", SeverityWarning)>>)))
\* a custom rule whose expression does not compile
DeclUndef == CustomLinter("cm-check", "jq", Obj(RulesBlock(<<Entry(ExprUndefVar, "undefined")>>)))
DeclNoName == CustomLinter("", "jq", Nil)
DeclNoType == CustomLinter("cm-check", "", Nil)
DeclNoFactory == CustomLinter("cm-check", "rego", Nil)
DeclBadSettings == CustomLinter("cm-check", "jq", Obj([k \in {"rules"} |-> Str("oops")]))
DeclNoSettings == CustomLinter("cm-check", "jq", Nil)
\* a custom rule whose entries cover the kinds of result stream, and the
\* severities: one that Severity does not declare, and fatal
DeclStream ==
    CustomLinter("cm-check", "jq",
                 Obj(RulesBlock(<<Entry(ExprNull, "null"), Entry(ExprEmpty, "empty"),
                                  Entry(ExprFalse, "false"),
                                  EntryFull(ExprZero, "zero", SeverityWarning,
                                            "metadata.name", "rename it"),
                                  EntrySev(ExprFalseThenTrue, "second value", "critical"),
                                  EntrySev(ExprEachKind, "one per document", SeverityFatal),
                                  Entry(ExprUnlabelled, "some document has no app label"),
                                  Entry(ExprTrueThenFail, "stops at true")>>)))
\* a custom rule that carries the name of a built-in
DeclShadow ==
    CustomLinter("resource-limits", "jq",
                 Obj(RulesBlock(<<Entry(ExprTrue, "shadowed")>>)))

CustomPool ==
    {<<>>, <<DeclCheck>>, <<DeclUndef>>, <<DeclNoSettings>>, <<DeclCheck, DeclNoName>>,
     <<DeclNoType>>, <<DeclCheck, DeclNoFactory>>, <<DeclBadSettings, DeclCheck>>,
     <<DeclStream>>, <<DeclShadow>>, <<DeclNoSettings, DeclCheck>>,
     <<DeclShadow, DeclNoType>>}

EnabledPool == {<<>>, <<"jq", "resource-limits">>, <<"cm-check", "jq", "a-labeler">>, <<"nope">>}

DisabledPool == {<<>>, <<"jq">>, <<"resource-limits", "nope">>}

LimitsBlockA ==
    [k \in {"require-cpu-limit", "require-memory-request"} |->
       IF k = "require-cpu-limit" THEN Bool(FALSE) ELSE Str("no")]
LimitsBlockB == [k \in {"require-memory-limit"} |-> Bool(FALSE)]

SettingsPool ==
    {EmptyMap,
     [n \in {"resource-limits"} |-> LimitsBlockA],
     [n \in {"resource-limits"} |-> LimitsBlockB],
     [n \in {"jq"} |-> RulesBlock(<<Entry(ExprNoAppLabel, "missing app label")>>)],
     [n \in {"jq"} |-> RulesBlock(<<Entry(ExprBadSyntax, "never parsed")>>)],
     [n \in {"jq", "resource-limits"} |->
        IF n = "jq" THEN [k \in {"rules"} |-> Str("oops")] ELSE LimitsBlockA],
     [n \in {"nope"} |-> LimitsBlockB]}

\* settings that the custom rule accepts and the built-in jq, next in name
\* order, rejects
LateSettings ==
    [n \in {"cm-check", "jq"} |->
       IF n = "jq" THEN [k \in {"rules"} |-> Str("oops")]
       ELSE RulesBlock(<<Entry(ExprTrue, "late")>>)]

RunnerConfig(en, dis, st, cu) ==
    [EnabledLinters |-> en, DisabledLinters |-> dis, Settings |-> st, CustomLinters |-> cu]

\* the run specifications: every enable list with every disable list, every
\* settings map with no or one disabled rule, every custom list
ConfigPool ==
    {RunnerConfig(en, dis, EmptyMap, <<>>) : en \in EnabledPool, dis \in DisabledPool}
    \cup {RunnerConfig(<<>>, dis, st, <<>>) : dis \in {<<>>, <<"jq">>}, st \in SettingsPool}
    \cup {RunnerConfig(<<>>, <<>>, EmptyMap, cu) : cu \in CustomPool}
    \cup {RunnerConfig(<<"cm-check", "jq", "a-labeler">>, <<"jq">>, st, <<DeclCheck>>) :
            st \in SettingsPool}
    \cup {RunnerConfig(<<>>, <<>>, LateSettings, <<DeclNoSettings>>)}

NoConfig == RunnerConfig(<<>>, <<>>, EmptyMap, <<>>)

DocLists == SeqsUpTo(DocPool, MaxDocs)

\* the cross-resource example of docs/custom-linters.md: the rule
\* configmap-exists, declared and enabled, or enabled from the registry
DeclConfigMapExists ==
    CustomLinter("configmap-exists", "jq",
                 Obj(RulesBlock(<<EntryFull(ExprConfigMapExists,
                                            "Referenced ConfigMap does not exist",
                                            SeverityError, "spec.template.spec.volumes",
                                            "Ensure the ConfigMap is defined or create it")>>)))

CrossConfigPool ==
    {RunnerConfig(<<"configmap-exists">>, <<>>, EmptyMap, cu) :
       cu \in {<<DeclConfigMapExists>>, <<>>}}

CmB == Doc("v1", "ConfigMap", "", "cfg-b", {"app"}, <<>>, <<>>)
\* a Deployment with two configMap volumes, and one with none
DeployTwo ==
    [Doc("apps/v1", "Deployment", "default", "api", {"app"}, TemplatePath,
         <<Container("api", TRUE, {"cpu", "memory"}, {"cpu", "memory"})>>)
     EXCEPT !.configMaps = <<"cfg-a", "cfg-b">>]
DeployBare ==
    Doc("apps/v1", "Deployment", "default", "bare", {"app"}, TemplatePath,
        <<Container("bare", TRUE, {"cpu", "memory"}, {"cpu", "memory"})>>)

CrossDocLists == SeqsUpTo({DeployWeb, DeployTwo, DeployBare, CmA, CmB}, MaxDocs)

\* ------------------------------------------------------------------------
\* State
\* ------------------------------------------------------------------------
VARIABLES
    registry,     \* registry.linters
    factories,    \* the linter types that have a factory
    concurrency,  \* cfg.Run.Concurrency, as Load resolved it
    pc,           \* position of the process
    runs,         \* NewRunner calls so far
    config,       \* Runner.config: the last run specification
    runner,       \* the Runner: ok (not nil) and the names of Runner.linters
    setupErr,     \* the error of the last NewRunner
    calls,        \* Configure calls of the last NewRunner
    objects,      \* the []unstructured.Unstructured given to Run (shared maps)
    input,        \* the documents as they were handed to Run
    di, li,       \* Run: index of the current object and linter
    issues,       \* Run: local variable issues
    result,       \* the issues Run returned
    runErr,       \* the error Run returned
    cancelled,    \* the context of Run is done
    units,        \* the Lint calls of this Run, as started
    inFlight      \* Lint calls started and not returned

\* callers of the registry on goroutines of their own
VARIABLES
    mu,           \* registry.mu: the writer that holds it (0: none), the readers
    rstate,       \* per reader: position in All, Names or Get and its locals
    wstate,       \* per writer: position in Register and its argument
    history       \* the contents of registry.linters, one per Register call

lockVars == <<mu, rstate, wstate, history>>

\* a function of the repository called on its own
VARIABLES
    invoked,      \* the function and its arguments
    yielded       \* what the call returned

callVars == <<invoked, yielded>>

vars == <<registry, factories, concurrency, pc, runs, config, runner, setupErr, calls,
          objects, input, di, li, issues, result, runErr, cancelled, units, inFlight,
          lockVars, callVars>>

\* what the callers of the registry leave alone
procVars == <<factories, concurrency, pc, runs, config, runner, setupErr, calls,
              objects, input, di, li, issues, result, runErr, cancelled, units, inFlight,
              callVars>>

\* what a function called on its own leaves alone
progVars == <<registry, factories, concurrency, pc, runs, config, runner, setupErr, calls,
              objects, input, di, li, issues, result, runErr, cancelled, units, inFlight,
              lockVars>>

NoCall == [fn |-> ""]

Readers == 1..MaxReaders
Writers == 1..MaxWriters

\* the linters the writers register: a new name and the name of a built-in
RegisterPool ==
    {Instance("jq", "cm-check"),
     [Instance("jq", "jq") EXCEPT !.rules = <<Rule(ExprTrue, "replaced", SeverityError, "", "")>>]}

\* the calls the readers make
ReadOps ==
    {[fn |-> "All", name |-> ""], [fn |-> "Names", name |-> ""],
     [fn |-> "Get", name |-> "jq"], [fn |-> "Get", name |-> "cm-check"]}

IdleReader ==
    [pc |-> "idle", op |-> [fn |-> "", name |-> ""], names |-> <<>>, out |-> <<>>,
     err |-> NoError]

IdleWriter == [pc |-> "idle", arg |-> Instance("", "")]

runVars == <<objects, input, di, li, issues, result, runErr, cancelled, units, inFlight>>

NoRunner == [ok |-> FALSE, linters |-> <<>>]

\* run.concurrency is read from the config file: a value Validate rejects
\* (0) or the largest value; the runner never reads it
Init ==
    /\ registry = InitRegistry
    /\ factories = InitFactories
    /\ concurrency \in {0, MaxConcurrency}
    /\ pc = "start"
    /\ runs = 0
    /\ config = NoConfig
    /\ runner = NoRunner
    /\ setupErr = NoError
    /\ calls = <<>>
    /\ objects = <<>>
    /\ input = <<>>
    /\ di = 0
    /\ li = 0
    /\ issues = <<>>
    /\ result = <<>>
    /\ runErr = NoError
    /\ cancelled = FALSE
    /\ units = <<>>
    /\ inFlight = 0
    /\ mu = [writer |-> 0, readers |-> {}]
    /\ rstate = [r \in Readers |-> IdleReader]
    /\ wstate = [w \in Writers |-> IdleWriter]
    /\ history = <<InitRegistry>>
    /\ invoked = NoCall
    /\ yielded = NoCall

\* Config.Validate, the part on run.concurrency; runLint stops on the error
Validate ==
    /\ pc = "start"
    /\ pc' = IF concurrency < 1 THEN "invalid" ELSE "idle"
    /\ UNCHANGED <<lockVars, callVars, registry, factories, concurrency, runs, config, runner, setupErr, calls>>
    /\ UNCHANGED runVars

\* Register called with a linter implemented outside the repository
RegisterLabeler ==
    /\ pc = "idle"
    /\ runs = 0
    /\ "a-labeler" \notin DOMAIN registry
    /\ registry' = Register(registry, Instance("labeler", "a-labeler"))
    /\ UNCHANGED <<lockVars, callVars, factories, concurrency, pc, runs, config, runner, setupErr, calls>>
    /\ UNCHANGED runVars

\* variant of NewRunner: the next run is set up while Run is still in its loop
NewRunnerWhileRunning(cfg) ==
    /\ pc \in {"idle", "loop"}
    /\ runs < MaxRuns
    /\ LET r == NewRunnerResult(cfg, factories, registry) IN
         /\ registry' = r.reg
         /\ runner' = [ok |-> r.ok, linters |-> r.linters]
         /\ setupErr' = r.err
         /\ calls' = r.calls
         /\ pc' = IF r.ok THEN "ready" ELSE "failed"
    /\ config' = cfg
    /\ runs' = runs + 1
    /\ UNCHANGED <<lockVars, callVars, factories, concurrency>>
    /\ UNCHANGED runVars

NewRunner(cfg) ==
    /\ pc = "idle"
    /\ runs < MaxRuns
    /\ LET r == NewRunnerResult(cfg, factories, registry) IN
         /\ registry' = r.reg
         /\ runner' = [ok |-> r.ok, linters |-> r.linters]
         /\ setupErr' = r.err
         /\ calls' = r.calls
         /\ pc' = IF r.ok THEN "ready" ELSE "failed"
    /\ config' = cfg
    /\ runs' = runs + 1
    /\ UNCHANGED <<lockVars, callVars, factories, concurrency>>
    /\ UNCHANGED runVars

\* the caller is done with the outcome of NewRunner or Run and drops the
\* Runner; the registry stays as it is for the next run of the process
Report ==
    /\ pc \in {"failed", "returned"}
    /\ pc' = "idle"
    /\ config' = NoConfig
    /\ runner' = NoRunner
    /\ setupErr' = NoError
    /\ calls' = <<>>
    /\ objects' = <<>>
    /\ input' = <<>>
    /\ di' = 0
    /\ li' = 0
    /\ issues' = <<>>
    /\ result' = <<>>
    /\ runErr' = NoError
    /\ cancelled' = FALSE
    /\ units' = <<>>
    /\ inFlight' = 0
    /\ UNCHANGED <<lockVars, callVars, registry, factories, concurrency, runs>>

\* Run, entry: issues is empty, the objects are bound into the context
RunEnter(docs) ==
    /\ pc = "ready"
    /\ objects' = docs
    /\ input' = docs
    /\ issues' = <<>>
    /\ di' = 1
    /\ li' = 1
    /\ pc' = "loop"
    /\ UNCHANGED <<lockVars, callVars, registry, factories, concurrency, runs, config, runner, setupErr, calls,
                   result, runErr, cancelled, units, inFlight>>


\* variant of LintStart: the call is handed to a worker and the loop goes on
\* to the next linter without waiting for it
LintStartAsync ==
    /\ pc = "loop"
    /\ di <= Len(objects)
    /\ li <= Len(runner.linters)
    /\ units' = Append(units, [doc |-> di, linter |-> runner.linters[li],
                               seen |-> objects[di], all |-> objects,
                               cancelled |-> cancelled])
    /\ inFlight' = inFlight + 1
    /\ li' = li + 1
    /\ UNCHANGED <<lockVars, callVars, registry, factories, concurrency, pc, runs, config, runner, setupErr,
                   calls, objects, input, di, issues, result, runErr, cancelled>>

\* Run, line 91: the call linter.Lint(ctx, obj) starts
LintStart ==
    /\ pc = "loop"
    /\ di <= Len(objects)
    /\ li <= Len(runner.linters)
    /\ units' = Append(units, [doc |-> di, linter |-> runner.linters[li],
                               seen |-> objects[di], all |-> objects,
                               cancelled |-> cancelled])
    /\ inFlight' = inFlight + 1
    /\ pc' = "lint"
    /\ UNCHANGED <<lockVars, callVars, registry, factories, concurrency, runs, config, runner, setupErr, calls,
                   objects, input, di, li, issues, result, runErr, cancelled>>


\* variant of LintReturn: a Lint error is dropped and the loop goes on
LintReturnSkipError ==
    /\ pc = "lint"
    /\ LET name == runner.linters[li]
           obj == objects[di]
           r == Lint(registry[name], objects, obj)
       IN /\ objects' = [objects EXCEPT ![di] = r.obj]
          /\ issues' = IF r.err # NoError THEN issues ELSE issues \o r.issues
    /\ li' = li + 1
    /\ pc' = "loop"
    /\ inFlight' = inFlight - 1
    /\ UNCHANGED <<lockVars, callVars, registry, factories, concurrency, runs, config, runner, setupErr, calls,
                   input, di, cancelled, units, result, runErr>>

\* variant of LintReturn: the issues of the call replace the accumulated
\* ones instead of being appended
LintReturnOverwrite ==
    /\ pc = "lint"
    /\ LET name == runner.linters[li]
           obj == objects[di]
           r == Lint(registry[name], objects, obj)
       IN /\ objects' = [objects EXCEPT ![di] = r.obj]
          /\ IF r.err # NoError
             THEN /\ runErr' = <<"linter %q failed on %s/%s: %w", name, obj.kind, obj.name>>
                               \o r.err
                  /\ result' = issues
                  /\ pc' = "returned"
                  /\ UNCHANGED <<issues, li>>
             ELSE /\ issues' = r.issues
                  /\ li' = li + 1
                  /\ pc' = "loop"
                  /\ UNCHANGED <<result, runErr>>
    /\ inFlight' = inFlight - 1
    /\ UNCHANGED <<lockVars, callVars, registry, factories, concurrency, runs, config, runner, setupErr, calls,
                   input, di, cancelled, units>>

\* variant of LintReturn: the issues of a call are collected where the
\* completion of the call happens to place them, before or after the others
LintReturnUnordered ==
    /\ pc = "lint"
    /\ LET name == runner.linters[li]
           obj == objects[di]
           r == Lint(registry[name], objects, obj)
       IN /\ objects' = [objects EXCEPT ![di] = r.obj]
          /\ IF r.err # NoError
             THEN /\ runErr' = <<"linter %q failed on %s/%s: %w", name, obj.kind, obj.name>>
                               \o r.err
                  /\ result' = issues
                  /\ pc' = "returned"
                  /\ UNCHANGED <<issues, li>>
             ELSE /\ issues' \in {issues \o r.issues, r.issues \o issues}
                  /\ li' = li + 1
                  /\ pc' = "loop"
                  /\ UNCHANGED <<result, runErr>>
    /\ inFlight' = inFlight - 1
    /\ UNCHANGED <<lockVars, callVars, registry, factories, concurrency, runs, config, runner, setupErr, calls,
                   input, di, cancelled, units>>

\* Run, lines 91-97: the call returns; on an error Run returns its issues
LintReturn ==
    /\ pc = "lint"
    /\ LET name == runner.linters[li]
           obj == objects[di]
           r == Lint(registry[name], objects, obj)
       IN /\ objects' = [objects EXCEPT ![di] = r.obj]
          /\ IF r.err # NoError
             THEN /\ runErr' = <<"linter %q failed on %s/%s: %w", name, obj.kind, obj.name>>
                               \o r.err
                  /\ result' = issues
                  /\ pc' = "returned"
                  /\ UNCHANGED <<issues, li>>
             ELSE /\ issues' = issues \o r.issues
                  /\ li' = li + 1
                  /\ pc' = "loop"
                  /\ UNCHANGED <<result, runErr>>
    /\ inFlight' = inFlight - 1
    /\ UNCHANGED <<lockVars, callVars, registry, factories, concurrency, runs, config, runner, setupErr, calls,
                   input, di, cancelled, units>>

\* Run: the inner loop is exhausted, the outer loop takes the next object
NextObject ==
    /\ pc = "loop"
    /\ di <= Len(objects)
    /\ li > Len(runner.linters)
    /\ di' = di + 1
    /\ li' = 1
    /\ UNCHANGED <<lockVars, callVars, registry, factories, concurrency, pc, runs, config, runner, setupErr,
                   calls, objects, input, issues, result, runErr, cancelled, units, inFlight>>

\* Run, line 101: return issues, nil
RunReturn ==
    /\ pc = "loop"
    /\ di > Len(objects)
    /\ result' = issues
    /\ runErr' = NoError
    /\ pc' = "returned"
    /\ UNCHANGED <<lockVars, callVars, registry, factories, concurrency, runs, config, runner, setupErr, calls,
                   objects, input, di, li, issues, cancelled, units, inFlight>>

\* the caller cancels the context given to Run, or its deadline passes
Cancel ==
    /\ pc \in {"ready", "loop", "lint"}
    /\ ~cancelled
    /\ cancelled' = TRUE
    /\ UNCHANGED <<lockVars, callVars, registry, factories, concurrency, pc, runs, config, runner, setupErr,
                   calls, objects, input, di, li, issues, result, runErr, units, inFlight>>

Next ==
    \/ Validate
    \/ \E cfg \in ConfigPool : NewRunner(cfg)
    \/ \E docs \in DocLists : RunEnter(docs)
    \/ LintStart
    \/ LintReturn
    \/ NextObject
    \/ RunReturn
    \/ Cancel
    \/ Report

Spec == Init /\ [][Next]_vars

\* the process with a linter registered from outside the repository
NextLabeler ==
    \/ RegisterLabeler
    \/ Next

SpecLabeler == Init /\ [][NextLabeler]_vars

\* the process run on the cross-resource example
NextCross ==
    \/ Validate
    \/ \E cfg \in CrossConfigPool : NewRunner(cfg)
    \/ \E docs \in CrossDocLists : RunEnter(docs)
    \/ LintStart
    \/ LintReturn
    \/ NextObject
    \/ RunReturn
    \/ Cancel
    \/ Report

SpecCross == Init /\ [][NextCross]_vars

\* ------------------------------------------------------------------------
\* Callers of the registry on goroutines of their own.  A step is what a
\* caller does between two operations on registry.mu or on the map.
\* ------------------------------------------------------------------------
\* a reader enters All, Names or Get
ReadCall(r, op) ==
    /\ rstate[r].pc = "idle"
    /\ rstate' = [rstate EXCEPT ![r] = [IdleReader EXCEPT !.pc = "rlock", !.op = op]]
    /\ UNCHANGED <<registry, mu, wstate, history>>
    /\ UNCHANGED procVars

\* registry.mu.RLock(): waits while a writer holds the lock
RLock(r) ==
    /\ rstate[r].pc = "rlock"
    /\ mu.writer = 0
    /\ mu' = [mu EXCEPT !.readers = @ \cup {r}]
    /\ rstate' = [rstate EXCEPT ![r].pc = IF rstate[r].op.fn = "Get" THEN "get" ELSE "range"]
    /\ UNCHANGED <<registry, wstate, history>>
    /\ UNCHANGED procVars

\* All and Names: the range over the map and sort.Strings
Range(r) ==
    /\ rstate[r].pc = "range"
    /\ LET names == SortStrings(DOMAIN registry) IN
         rstate' = [rstate EXCEPT ![r].names = names,
                                  ![r].out = IF rstate[r].op.fn = "Names" THEN names ELSE <<>>,
                                  ![r].pc = IF rstate[r].op.fn = "Names" THEN "runlock"
                                                                         ELSE "fetch"]
    /\ UNCHANGED <<registry, mu, wstate, history>>
    /\ UNCHANGED procVars

\* All: the loop that looks every name up
Fetch(r) ==
    /\ rstate[r].pc = "fetch"
    /\ rstate' = [rstate EXCEPT ![r].out = [i \in 1..Len(rstate[r].names) |->
                                              registry[rstate[r].names[i]]],
                                ![r].pc = "runlock"]
    /\ UNCHANGED <<registry, mu, wstate, history>>
    /\ UNCHANGED procVars

\* Get: the lookup
GetLookup(r) ==
    /\ rstate[r].pc = "get"
    /\ LET g == Get(registry, rstate[r].op.name) IN
         rstate' = [rstate EXCEPT ![r].out = g.out, ![r].err = g.err, ![r].pc = "runlock"]
    /\ UNCHANGED <<registry, mu, wstate, history>>
    /\ UNCHANGED procVars

\* the deferred registry.mu.RUnlock(); the read returns
RUnlock(r) ==
    /\ rstate[r].pc = "runlock"
    /\ mu' = [mu EXCEPT !.readers = @ \ {r}]
    /\ rstate' = [rstate EXCEPT ![r] = IdleReader]
    /\ UNCHANGED <<registry, wstate, history>>
    /\ UNCHANGED procVars

\* variant of RegisterLock: Register does not wait for the lock
RegisterLockNoWait(w, l) ==
    /\ wstate[w].pc = "idle"
    /\ mu' = [mu EXCEPT !.writer = w]
    /\ wstate' = [wstate EXCEPT ![w] = [pc |-> "write", arg |-> l]]
    /\ UNCHANGED <<registry, rstate, history>>
    /\ UNCHANGED procVars

\* Register(l), registry.mu.Lock(): waits while anyone holds the lock
RegisterLock(w, l) ==
    /\ wstate[w].pc = "idle"
    /\ mu.writer = 0
    /\ mu.readers = {}
    /\ mu' = [mu EXCEPT !.writer = w]
    /\ wstate' = [wstate EXCEPT ![w] = [pc |-> "write", arg |-> l]]
    /\ UNCHANGED <<registry, rstate, history>>
    /\ UNCHANGED procVars

\* Register: the assignment to the map
RegisterWrite(w) ==
    /\ wstate[w].pc = "write"
    /\ registry' = Register(registry, wstate[w].arg)
    /\ history' = Append(history, registry')
    /\ wstate' = [wstate EXCEPT ![w].pc = "unlock"]
    /\ UNCHANGED <<mu, rstate>>
    /\ UNCHANGED procVars

\* Register: the deferred registry.mu.Unlock()
RegisterUnlock(w) ==
    /\ wstate[w].pc = "unlock"
    /\ mu' = [mu EXCEPT !.writer = 0]
    /\ wstate' = [wstate EXCEPT ![w].pc = "done"]
    /\ UNCHANGED <<registry, rstate, history>>
    /\ UNCHANGED procVars

NextRegistry ==
    \/ \E r \in Readers : \E op \in ReadOps : ReadCall(r, op)
    \/ \E r \in Readers : RLock(r)
    \/ \E r \in Readers : Range(r)
    \/ \E r \in Readers : Fetch(r)
    \/ \E r \in Readers : GetLookup(r)
    \/ \E r \in Readers : RUnlock(r)
    \/ \E w \in Writers : \E l \in RegisterPool : RegisterLock(w, l)
    \/ \E w \in Writers : RegisterWrite(w)
    \/ \E w \in Writers : RegisterUnlock(w)

SpecRegistry == Init /\ [][NextRegistry]_vars

\* ------------------------------------------------------------------------
\* Functions called on their own, on arguments drawn from bounded sets
\* ------------------------------------------------------------------------
\* gvk.IsAnyGVK over the GroupVersionKind of the object
WorkloadGVKs ==
    {<<"apps/v1", "Deployment">>, <<"apps/v1", "StatefulSet">>, <<"apps/v1", "DaemonSet">>,
     <<"batch/v1", "Job">>, <<"batch/v1", "CronJob">>}

IsWorkload(obj) == <<obj.apiVersion, obj.kind>> \in WorkloadGVKs

IsWorkloadOrPod(obj) == <<obj.apiVersion, obj.kind>> \in WorkloadGVKs \cup {<<"v1", "Pod">>}

\* the kinds of the documents: the workloads, Pod, a kind without pod
\* template, a custom kind, and a Deployment of a retired API group
KindPool ==
    WorkloadGVKs \cup {<<"v1", "Pod">>, <<"v1", "ConfigMap">>,
                       <<"argoproj.io/v1alpha1", "Workflow">>,
                       <<"extensions/v1beta1", "Deployment">>}

ContainerLists ==
    {<<>>,
     <<Container("app", FALSE, {}, {})>>,
     <<Container("app", TRUE, {}, {})>>,
     <<Container("app", TRUE, {"cpu", "memory"}, {"cpu", "memory"}),
       Container("sidecar", TRUE, {"memory"}, {"cpu"})>>}

IsPrefix(q, p) == Len(q) <= Len(p) /\ q = SubSeq(p, 1, Len(q))

\* documents of every kind with the containers at every path, or a string
\* somewhere on a path (a string holds no fields, so none below it)
ShapePool ==
    {Doc(k[1], k[2], "default", "x", {}, cp, cs) :
       k \in KindPool, cp \in {PodPath, TemplatePath, CronJobPath}, cs \in ContainerLists}
    \cup {[Doc(k[1], k[2], "default", "x", {}, <<>>, <<>>) EXCEPT !.scalarAt = sc] :
            k \in KindPool,
            sc \in {<<>>, <<"spec">>, <<"spec", "template">>, <<"spec", "jobTemplate">>,
                    PodPath, TemplatePath}}

\* resource-limits instances: as registered, and after Configure
LimitsInstances ==
    {Instance("resource-limits", "resource-limits"),
     ResourceLimitsConfigure(Instance("resource-limits", "resource-limits"), LimitsBlockA).l,
     ResourceLimitsConfigure(Instance("resource-limits", "resource-limits"), LimitsBlockB).l}

\* k8s.GetContainers called on a document
CallGetContainers(obj) ==
    /\ invoked = NoCall
    /\ invoked' = [fn |-> "GetContainers", obj |-> obj]
    /\ yielded' = GetContainers(obj)
    /\ UNCHANGED progVars

\* ResourceLimitsLinter.Lint called on a document
CallResourceLimitsLint(l, obj) ==
    /\ invoked = NoCall
    /\ invoked' = [fn |-> "Lint", l |-> l, obj |-> obj]
    /\ yielded' = ResourceLimitsLint(l, obj)
    /\ UNCHANGED progVars

\* ---- jq.Linter.Configure called on an instance -------------------------
MaxEntries == 2

\* what an element of settings["rules"] can be: two entries Configure
\* accepts, a string, an object without expression, an object without
\* message, an object whose expression is not a string
ConfigureEntries ==
    {Entry(ExprTrue, "new"),
     EntryFull(ExprFalse, "full", SeverityWarning, "metadata.name", "rename it"),
     Str("text"),
     Obj([k \in {"message"} |-> Str("no expression")]),
     Obj([k \in {"expression"} |-> Str(ExprTrue)]),
     Obj([k \in {"expression", "message"} |->
            IF k = "expression" THEN Bool(TRUE) ELSE Str("not a string")])}

JqSettingsPool ==
    {EmptyMap, [k \in {"rules"} |-> Str("oops")], [k \in {"rules"} |-> Obj(EmptyMap)]}
    \cup {RulesBlock(es) : es \in SeqsUpTo(ConfigureEntries, MaxEntries)}

\* jq instances: as created, and holding the entries of an earlier Configure
JqInstances ==
    {Instance("jq", "jq"),
     [Instance("jq", "jq") EXCEPT
        !.rules = <<Rule(ExprNull, "old", SeverityInfo, "", ""),
                    Rule(ExprTrue, "older", SeverityError, "kind", "")>>]}

CallJqConfigure(l, settings) ==
    /\ invoked = NoCall
    /\ invoked' = [fn |-> "Configure", l |-> l, settings |-> settings]
    /\ yielded' = JqConfigure(l, settings)
    /\ UNCHANGED progVars

\* ---- main and runLint: the exit code of the process ---------------------
ExitSuccess == 0
ExitFailure == 1
ExitFatal == 2
ExitErrors == 1
ExitWarnings == 4

\* the steps of runLint that can fail, in the order runLint takes them
Stages ==
    <<"Load", "Validate", "NewFromSource", "Render", "NewRunner", "Run", "NewFormatter",
      "Format">>

MaxFindings == 2

\* what Run can return: Findings of any severity a rule can carry
FindingLists ==
    {[i \in 1..Len(sevs) |-> Issue(sevs[i], "jq", <<"found">>, CmA, <<"">>, "")] :
       sevs \in SeqsUpTo({SeverityFatal, SeverityError, SeverityWarning, SeverityInfo,
                          "critical"}, MaxFindings)}

Count(found, sev) == Cardinality({i \in 1..Len(found) : found[i].Severity = sev})

\* variant of RunLint: the error count is looked at before the fatal count
RunLintErrorsFirst(failing, found, failOnWarning) ==
    IF failing # "none" THEN [exited |-> FALSE, code |-> ExitSuccess, err |-> <<failing>>]
    ELSE IF Count(found, SeverityError) > 0
    THEN [exited |-> TRUE, code |-> ExitErrors, err |-> NoError]
    ELSE IF Count(found, SeverityFatal) > 0
    THEN [exited |-> TRUE, code |-> ExitFatal, err |-> NoError]
    ELSE IF failOnWarning /\ Count(found, SeverityWarning) > 0
    THEN [exited |-> TRUE, code |-> ExitWarnings, err |-> NoError]
    ELSE [exited |-> FALSE, code |-> ExitSuccess, err |-> NoError]

\* runLint: failing is the first step that returns an error ("none": no
\* step does), found is what Run returned.  runLint returns the error of the
\* failing step, or ends the process with os.Exit, or returns nil.
RunLint(failing, found, failOnWarning) ==
    IF failing # "none" THEN [exited |-> FALSE, code |-> ExitSuccess, err |-> <<failing>>]
    ELSE IF Count(found, SeverityFatal) > 0
    THEN [exited |-> TRUE, code |-> ExitFatal, err |-> NoError]
    ELSE IF Count(found, SeverityError) > 0
    THEN [exited |-> TRUE, code |-> ExitErrors, err |-> NoError]
    ELSE IF failOnWarning /\ Count(found, SeverityWarning) > 0
    THEN [exited |-> TRUE, code |-> ExitWarnings, err |-> NoError]
    ELSE [exited |-> FALSE, code |-> ExitSuccess, err |-> NoError]

\* main: rootCmd.Execute() runs runLint; a returned error ends the process
\* with os.Exit(1), a nil return with the exit code of a returning main
Main(failing, found, failOnWarning) ==
    LET r == RunLint(failing, found, failOnWarning)
    IN IF r.exited THEN r.code
       ELSE IF r.err # NoError THEN ExitFailure
       ELSE ExitSuccess

CallMain(failing, found, failOnWarning) ==
    /\ invoked = NoCall
    /\ invoked' = [fn |-> "main", failing |-> failing, found |-> found,
                   failOnWarning |-> failOnWarning]
    /\ yielded' = Main(failing, found, failOnWarning)
    /\ UNCHANGED progVars

NextCalls ==
    \/ \E obj \in ShapePool : CallGetContainers(obj)
    \/ \E l \in LimitsInstances, obj \in ShapePool : CallResourceLimitsLint(l, obj)
    \/ \E l \in JqInstances, settings \in JqSettingsPool : CallJqConfigure(l, settings)
    \/ \E failing \in ToSet(Stages) \cup {"none"}, found \in FindingLists,
          failOnWarning \in BOOLEAN :
         CallMain(failing, found, failOnWarning)

SpecCalls == Init /\ [][NextCalls]_vars

\* ------------------------------------------------------------------------
\* Properties
\* ------------------------------------------------------------------------
EnabledNames == ToSet(config.EnabledLinters)
DisabledNames == ToSet(config.DisabledLinters)

\* the rules a run specification selects from the registry
ActiveNames ==
    {n \in DOMAIN registry : (EnabledNames = {} \/ n \in EnabledNames) /\ n \notin DisabledNames}

NoDuplicates(s) == \A i, j \in 1..Len(s) : s[i] = s[j] => i = j

\* what the Lint call of a unit returns, from what the unit was given
UnitLint(u) == Lint(registry[u.linter], u.all, u.seen)

RECURSIVE UnitIssues(_)
UnitIssues(us) ==
    IF us = <<>> THEN <<>> ELSE UnitLint(Head(us)).issues \o UnitIssues(Tail(us))

\* C1: the active rule set of a Runner is exactly the registered rules that
\* are enabled (or all, without an enable list) and not disabled, each once;
\* no finding that Run returns carries the name of a disabled rule.
C1_ActiveRuleSelection ==
    /\ runner.ok => /\ ToSet(runner.linters) = ActiveNames
                    /\ NoDuplicates(runner.linters)
    /\ \A i \in 1..Len(result) : result[i].Linter \notin DisabledNames

\* C1 witness: a run returned findings while a registered rule that has
\* entries to report was named in both the enable and the disable list
C1_Witness ==
    /\ pc = "returned"
    /\ result # <<>>
    /\ \E n \in EnabledNames \cap DisabledNames :
         /\ n \in DOMAIN registry
         /\ registry[n].rules # <<>>

\* C2: a Lint error fails the run: the error names the rule and the kind and
\* name of the document, the failing unit is the last one evaluated, and the
\* findings of the units before it are returned.
C2_FailurePolicy ==
    /\ \A i \in 1..Len(units) :
         (UnitLint(units[i]).err # NoError) =>
            /\ i = Len(units)
            /\ pc \in {"lint", "returned"}
            /\ pc = "returned" => runErr # NoError
    /\ (pc = "returned" /\ runErr # NoError) =>
         /\ units # <<>>
         /\ LET u == units[Len(units)] IN
              /\ UnitLint(u).err # NoError
              /\ runErr = <<"linter %q failed on %s/%s: %w", u.linter, u.seen.kind, u.seen.name>>
                          \o UnitLint(u).err
              /\ result = UnitIssues(SubSeq(units, 1, Len(units) - 1))

\* C2 witness: a run failed in an expression, returned the findings of
\* earlier units and left a unit unevaluated
C2_Witness ==
    /\ pc = "returned"
    /\ runErr # NoError
    /\ runErr[5] = "jq expression %q failed: %w"
    /\ result # <<>>
    /\ Len(units) < Len(objects) * Len(runner.linters)

\* C3: a run without error has called Lint exactly once for every
\* (document, active rule) pair and returns exactly what the calls produced;
\* each finding names an active rule and the document of its unit.
C3_CompleteEvaluation ==
    (pc = "returned" /\ runErr = NoError) =>
      /\ Len(units) = Len(objects) * Len(runner.linters)
      /\ \A d \in 1..Len(objects) : \A l \in 1..Len(runner.linters) :
           Cardinality({i \in 1..Len(units) :
                          units[i].doc = d /\ units[i].linter = runner.linters[l]}) = 1
      /\ result = UnitIssues(units)
      /\ \A i \in 1..Len(result) :
           /\ result[i].Linter \in ToSet(runner.linters)
           /\ \E k \in 1..Len(units) :
                /\ units[k].linter = result[i].Linter
                /\ result[i].Resource = ResourceRef(input[units[k].doc])

\* C3 witness: a run over two documents and at least two rules returned
\* findings of two different rules without error
C3_Witness ==
    /\ pc = "returned"
    /\ runErr = NoError
    /\ Len(objects) = 2
    /\ Len(runner.linters) >= 2
    /\ \E i, j \in 1..Len(result) : result[i].Linter # result[j].Linter

\* ---- setup ---------------------------------------------------------------
AfterSetup == pc \in {"failed", "ready", "loop", "lint", "returned"}

Decls == config.CustomLinters

\* the reasons for which a custom declaration is rejected
DeclBad(d) ==
    \/ d.Name = ""
    \/ d.Type = ""
    \/ d.Type \notin factories
    \/ d.Settings # Nil /\ Configure(JqFactoryCreate(d.Name), d.Settings.m).err # NoError

DeclErrorFormat(d) ==
    CASE d.Name = "" -> "custom linter name is required"
      [] d.Type = "" -> "custom linter %q: type is required"
      [] d.Type \notin factories -> "failed to create custom linter %q: %w"
      [] OTHER -> "failed to configure custom linter %q: %w"

BadDecls == {k \in 1..Len(Decls) : DeclBad(Decls[k])}

\* the declarations NewRunner gets through: all, or those before the first bad one
GoodPrefix ==
    IF BadDecls = {} THEN Len(Decls)
    ELSE (CHOOSE k \in BadDecls : \A j \in BadDecls : k <= j) - 1

DeclInstance(d) ==
    IF d.Settings = Nil THEN JqFactoryCreate(d.Name)
    ELSE Configure(JqFactoryCreate(d.Name), d.Settings.m).l

\* C4: NewRunner fails at the first custom declaration that has no name, no
\* type, no factory for its type or settings that Configure rejects, with
\* the error of that reason and no Runner, so that no Lint call follows; the
\* declarations before it (all of them when none is bad) are registered
\* under their names.
C4_CustomRuleSetup ==
    /\ ~runner.ok => (units = <<>> /\ pc \notin {"ready", "loop", "lint", "returned"})
    /\ AfterSetup =>
         /\ BadDecls # {} =>
              /\ pc = "failed"
              /\ ~runner.ok
              /\ setupErr # NoError
              /\ setupErr[1] = DeclErrorFormat(Decls[GoodPrefix + 1])
         /\ \A k \in 1..GoodPrefix :
              LET name == Decls[k].Name IN
                /\ name \in DOMAIN registry
                /\ registry[name].name = name
                /\ registry[name].type = "jq"
                /\ (name \notin DOMAIN config.Settings
                    /\ \A j \in (k + 1)..GoodPrefix : Decls[j].Name # name)
                   => registry[name] = DeclInstance(Decls[k])

\* C4 witness: NewRunner failed at the second declaration, for a missing
\* factory, after it had registered the first
C4_Witness ==
    /\ pc = "failed"
    /\ Len(Decls) = 2
    /\ GoodPrefix = 1
    /\ setupErr[1] = "failed to create custom linter %q: %w"
    /\ Decls[1].Name \in DOMAIN registry

SelectCallsOf(n) == {i \in 1..Len(calls) : calls[i].phase = "select" /\ calls[i].name = n}

Configurable == ActiveNames \cap DOMAIN config.Settings

ReferencedNames == EnabledNames \cup DisabledNames \cup DOMAIN config.Settings

\* C6: a run specification that names a rule the registry does not hold
\* makes NewRunner fail; no Runner is built from it.
C6_UnknownNameIsSetupError ==
    runner.ok => ReferencedNames \subseteq DOMAIN registry

\* ---- persistence of configuration ----------------------------------------
LimitsKey ==
    [requireCPULimit |-> "require-cpu-limit", requireMemoryLimit |-> "require-memory-limit",
     requireCPURequest |-> "require-cpu-request",
     requireMemoryRequest |-> "require-memory-request"]

\* the names the custom declarations of a run specification carry
DeclaredNames(cfg) == {cfg.CustomLinters[k].Name : k \in 1..Len(cfg.CustomLinters)}

\* C7: NewRunner works on the instances of the registry.  A registered rule
\* that the run specification neither declares anew nor configures (no
\* settings block, or the rule inactive) is left exactly as the previous run
\* left it; a resource-limits field for which the block has no value keeps
\* the previous value, and on success a field the block sets holds that value.
C7_ConfigurationPersists ==
    [][(pc = "idle" /\ pc' \in {"ready", "failed"}) =>
         \A n \in DOMAIN registry :
           /\ n \in DOMAIN registry'
           /\ (n \notin DeclaredNames(config') /\ n \notin Configurable') =>
                registry'[n] = registry[n]
           /\ (registry[n].type = "resource-limits" /\ n \notin DeclaredNames(config')) =>
                LET blk == IF n \in Configurable' THEN config'.Settings[n] ELSE EmptyMap IN
                  /\ registry'[n].type = "resource-limits"
                  /\ \A f \in DOMAIN LimitsKey :
                       /\ ~IsBool(blk, LimitsKey[f]) => registry'[n].cfg[f] = registry[n].cfg[f]
                       /\ (IsBool(blk, LimitsKey[f]) /\ pc' = "ready") =>
                            registry'[n].cfg[f] = (blk[LimitsKey[f]].v = "true")
                  /\ ~IsArray(blk, "exclude-namespaces") =>
                       registry'[n].cfg.excludeNamespaces = registry[n].cfg.excludeNamespaces
      ]_vars

\* C7 witness: the second run has no settings for resource-limits and
\* evaluates a workload with the CPU-limit check the first run switched off
C7_Witness ==
    /\ runs = 2
    /\ pc = "returned"
    /\ runErr = NoError
    /\ "resource-limits" \notin DOMAIN config.Settings
    /\ ~registry["resource-limits"].cfg.requireCPULimit
    /\ \E i \in 1..Len(units) :
         units[i].linter = "resource-limits" /\ units[i].seen.kind = "Deployment"
    /\ \E i \in 1..Len(result) : result[i].Message[1] = "Container %q missing memory request"
    /\ \A i \in 1..Len(result) : result[i].Message[1] # "Container %q missing CPU limit"

\* ---- evaluation ----------------------------------------------------------
\* C8: every unit evaluates the document as it was handed to Run, and gets
\* the document list as it was handed to Run: no write of another unit shows.
C8_DocumentIsolation ==
    \A i \in 1..Len(units) :
      /\ units[i].seen = input[units[i].doc]
      /\ units[i].all = input

\* C9: with a valid concurrency limit N >= 1 at most N Lint calls are in
\* flight; with an invalid one no run takes place.
C9_ConcurrencyBound ==
    /\ concurrency >= 1 => inFlight <= concurrency
    /\ concurrency < 1 => (inFlight = 0 /\ pc \in {"start", "invalid"})

\* C9 witness: a Lint call is in flight under the limit 1 in a run that has
\* several units
C9_Witness ==
    /\ concurrency = 1
    /\ inFlight = 1
    /\ Len(objects) * Len(runner.linters) >= 2

\* C10: no unit is started once the context of Run is cancelled.
C10_NoUnitAfterCancel ==
    \A i \in 1..Len(units) : ~units[i].cancelled

\* ---- determinism and order ------------------------------------------------
\* C11: what Run returns is a function of the rule instances of the runner
\* and of the document list alone: the finding list and the error are
\* RunOutcome of them, whatever the steps of the run and of its environment
\* were, so two runs over the same rules and documents return the same list.
C11_Determinism ==
    pc = "returned" =>
      LET o == RunOutcome(registry, runner.linters, input, 1, 1, <<>>) IN
        /\ result = o.issues
        /\ runErr = o.err

\* C11 witness: the second run of the process returned findings on two
\* different documents
C11_Witness ==
    /\ pc = "returned"
    /\ runs = 2
    /\ runErr = NoError
    /\ \E i, j \in 1..Len(result) : result[i].Resource # result[j].Resource

\* the kinds and names of the documents, in the byte order Go's < uses
KindOrder == <<"ConfigMap", "Deployment">>
ObjectNameOrder == <<"cfg-a", "web">>

Rank(order, x) == CHOOSE i \in 1..Len(order) : order[i] = x

\* the less function of sort.Slice in the text Formatter: resource kind,
\* then resource name, then linter name
IssueLess(a, b) ==
    IF a.Resource.Kind # b.Resource.Kind
    THEN Rank(KindOrder, a.Resource.Kind) < Rank(KindOrder, b.Resource.Kind)
    ELSE IF a.Resource.Name # b.Resource.Name
    THEN Rank(ObjectNameOrder, a.Resource.Name) < Rank(ObjectNameOrder, b.Resource.Name)
    ELSE StringLess(a.Linter, b.Linter)

SortedIssues(s) == \A i, j \in 1..Len(s) : i < j => ~IssueLess(s[j], s[i])

\* C12: the finding list that Run returns is sorted by resource kind, then
\* resource name, then rule name.
C12_RunReturnsSorted ==
    pc = "returned" => SortedIssues(result)

\* ---- order of Configure and Lint --------------------------------------------
\* C13: Configure is called, and a rule instance of the registry is changed,
\* only while no evaluation is in progress: before the first Lint call of
\* the Run that follows and with no Lint call in flight.  From the moment
\* NewRunner has returned until Run returns, no Configure call is made and
\* no instance changes.
C13_ConfigureBeforeLint ==
    [][/\ (registry' # registry \/ (calls' # calls /\ calls' # <<>>)) =>
            /\ pc = "idle"
            /\ units = <<>>
            /\ inFlight = 0
            /\ units' = <<>>
       /\ pc \in {"ready", "loop", "lint"} => (calls' = calls /\ registry' = registry)
       /\ (units' # units /\ units' # <<>>) =>
            /\ runner.ok
            /\ calls' = calls
            /\ registry' = registry
      ]_vars

\* C13 witness: a Lint call is in flight on a rule that the NewRunner of this
\* run has configured
C13_Witness ==
    /\ pc = "lint"
    /\ \E i \in 1..Len(calls) : calls[i].ok /\ calls[i].name = runner.linters[li]

\* ---- registry ----------------------------------------------------------------
\* the last declaration among those NewRunner gets through that carries the
\* name n, or 0
LastDecl(n) ==
    LET K == {k \in 1..GoodPrefix : Decls[k].Name = n}
    IN IF K = {} THEN 0 ELSE CHOOSE k \in K : \A j \in K : j <= k

\* C14: the registry changes only through the Register calls of NewRunner,
\* which never fail: afterwards it holds the names it held plus the names of
\* the declarations registered, each name once and mapped to a linter of
\* that name; a name that was declared holds the instance of its last
\* declaration (with the settings block applied, if it has one) in place of
\* what it held, a built-in included, and a name that was not declared
\* keeps its instance, so the replacement stays for the later runs.
C14_RegisterOverwrites ==
    [][IF pc = "idle" /\ pc' \in {"ready", "failed"}
       THEN /\ DOMAIN registry' =
                 DOMAIN registry \cup {Decls'[k].Name : k \in 1..GoodPrefix'}
            /\ \A n \in DOMAIN registry' :
                 /\ registry'[n].name = n
                 /\ LastDecl(n)' = 0 =>
                      /\ n \in DOMAIN registry
                      /\ registry'[n].type = registry[n].type
                      /\ n \notin Configurable' => registry'[n] = registry[n]
                 /\ LastDecl(n)' # 0 =>
                      LET d == DeclInstance(Decls'[LastDecl(n)']) IN
                        IF n \in Configurable'
                        THEN registry'[n] \in {d, Configure(d, config'.Settings[n]).l}
                        ELSE registry'[n] = d
       ELSE registry' = registry
      ]_vars

\* C14 witness: a run without declarations evaluates, under the name of the
\* built-in resource-limits, the expression rule that a declaration of an
\* earlier run registered under that name
C14_Witness ==
    /\ pc = "returned"
    /\ runs = 2
    /\ Decls = <<>>
    /\ registry["resource-limits"].type = "jq"
    /\ \E i \in 1..Len(result) :
         result[i].Linter = "resource-limits" /\ result[i].Message = <<"shadowed">>

\* C15: All returns every registered linter exactly once, in strictly
\* ascending order of name; Names returns the names of those linters in the
\* same order; the linters of a Runner are in ascending order of name.
C15_AllSortedByName ==
    LET all == All(registry)
        names == Names(registry)
    IN /\ Len(all) = Cardinality(DOMAIN registry)
       /\ ToSet(all) = DOMAIN registry
       /\ \A i, j \in 1..Len(all) : i < j => StringLess(registry[all[i]].name,
                                                          registry[all[j]].name)
       /\ Len(names) = Len(all)
       /\ \A i \in 1..Len(all) : names[i] = registry[all[i]].name
       /\ \A i, j \in 1..Len(runner.linters) :
            i < j => StringLess(runner.linters[i], runner.linters[j])

\* C15 witness: the rule registered last, by a declaration, comes first in
\* All and in the Runner, before the two built-ins
C15_Witness ==
    /\ pc = "ready"
    /\ Decls # <<>>
    /\ All(registry) = <<"cm-check", "jq", "resource-limits">>
    /\ runner.linters = <<"cm-check", "jq", "resource-limits">>

\* what a read returns when it is applied to the content reg as a whole
ReadOf(op, reg) ==
    CASE op.fn = "All" ->
           [out |-> [i \in 1..Len(All(reg)) |-> reg[All(reg)[i]]], err |-> NoError]
      [] op.fn = "Names" -> [out |-> Names(reg), err |-> NoError]
      [] OTHER -> Get(reg, op.name)

\* C16: while a Register call holds the lock no read is inside the map, and
\* a read holds the lock from its first to its last access; what All, Names
\* and Get are about to return is what the call yields on one content of the
\* history of the registry, one that a Register call left behind and the
\* next has not yet replaced; no mixture of two contents is returned.
C16_RegistryReadsAtomic ==
    /\ mu.writer # 0 => mu.readers = {}
    /\ \A r \in Readers :
         /\ rstate[r].pc \in {"range", "fetch", "get", "runlock"} =>
              (r \in mu.readers /\ mu.writer = 0)
         /\ rstate[r].pc = "fetch" => rstate[r].names = Names(registry)
         /\ rstate[r].pc = "runlock" =>
              /\ \E v \in 1..Len(history) :
                   LET e == ReadOf(rstate[r].op, history[v]) IN
                     rstate[r].out = e.out /\ rstate[r].err = e.err
              /\ rstate[r].out = ReadOf(rstate[r].op, registry).out
    /\ registry = history[Len(history)]

\* C16 witness: after a Register call, All of one reader and a read of
\* another are inside the lock together, the first with its result ready,
\* while a Register call is still to come
C16_Witness ==
    /\ Len(history) = 2
    /\ \E r, q \in Readers :
         /\ r # q
         /\ rstate[r].pc = "runlock"
         /\ rstate[r].op.fn = "All"
         /\ Len(rstate[r].out) = 3
         /\ rstate[q].pc \in {"range", "fetch", "get"}
    /\ \E w \in Writers : wstate[w].pc = "idle"

\* ---- the expression kind ---------------------------------------------------
\* the first value of the stream that is neither null nor false exists
Fires(stream) ==
    \E i \in 1..Len(stream) :
      /\ stream[i] \notin {"null", "false"}
      /\ \A j \in 1..(i - 1) : stream[j] \in {"null", "false"}

\* the finding of an entry: its static values, the name of the rule, the
\* reference of the document
EntryFinding(l, rule, obj) ==
    [Severity |-> rule.Severity, Linter |-> l.name, Message |-> <<rule.Message>>,
     Resource |-> [APIVersion |-> obj.apiVersion, Kind |-> obj.kind,
                   Namespace |-> obj.namespace, Name |-> obj.name],
     Field |-> <<rule.Field>>, Suggestion |-> rule.Suggestion]

RECURSIVE ExpectedFindings(_, _, _, _)
ExpectedFindings(l, k, allObjects, obj) ==
    IF k > Len(l.rules) THEN <<>>
    ELSE (IF Fires(JqRun(l.rules[k].Expression, allObjects, obj))
          THEN <<EntryFinding(l, l.rules[k], obj)>> ELSE <<>>)
         \o ExpectedFindings(l, k + 1, allObjects, obj)

\* Every unit of a run is, when it starts, the Lint call in flight: the last
\* of units in a state with pc = "lint".  The rule instance, the document and
\* the document list it works on are those of that state.
\* C17: an expression rule that evaluates a document without error returns,
\* in the order of its entries, one finding for each entry whose result
\* stream has a value other than null and false, and none for an entry whose
\* stream is empty or holds only null and false; the finding carries the
\* entry's message, severity, field and suggestion, the rule's name and the
\* reference of the document.
C17_Truthiness ==
    pc = "lint" =>
      LET u == units[Len(units)]
          l == registry[u.linter]
          r == UnitLint(u)
          messages == {r.issues[f].Message : f \in 1..Len(r.issues)}
      IN (l.type = "jq" /\ r.err = NoError) =>
           /\ r.issues = ExpectedFindings(l, 1, u.all, u.seen)
           /\ \A k \in 1..Len(l.rules) :
                LET stream == JqRun(l.rules[k].Expression, u.all, u.seen) IN
                  (\A j \in 1..Len(stream) : stream[j] \in {"null", "false"})
                  => <<l.rules[k].Message>> \notin messages

\* C17 witness: a run returned the finding of the entry whose result is the
\* number 0, with the entry's severity, field and suggestion, and none for
\* the entries whose result is null, false or absent
C17_Witness ==
    /\ pc = "returned"
    /\ runErr = NoError
    /\ \E i \in 1..Len(result) :
         /\ result[i].Message = <<"zero">>
         /\ result[i].Severity = SeverityWarning
         /\ result[i].Field = <<"metadata.name">>
         /\ result[i].Suggestion = "rename it"
         /\ result[i].Linter = "cm-check"
         /\ result[i].Resource.Name = "cfg-a"
    /\ \A i \in 1..Len(result) : result[i].Message \notin {<<"null">>, <<"empty">>, <<"false">>}

\* the finding of every entry of a rule for a document, in entry order
EntryFindings(l, obj) == [k \in 1..Len(l.rules) |-> EntryFinding(l, l.rules[k], obj)]

\* s is t with some elements left out
RECURSIVE IsSubSeq(_, _)
IsSubSeq(s, t) ==
    IF s = <<>> THEN TRUE
    ELSE IF t = <<>> THEN FALSE
    ELSE IF Head(s) = Head(t) THEN IsSubSeq(Tail(s), Tail(t))
    ELSE IsSubSeq(s, Tail(t))

\* C18: Lint of an expression rule with k entries returns at most k
\* findings for a document: the findings are, in entry order, those of
\* distinct entries, each entry at most once, also when the result stream
\* of an entry holds several values other than null and false.
C18_OneFindingPerEntry ==
    pc = "lint" =>
      LET u == units[Len(units)]
          l == registry[u.linter]
          r == UnitLint(u)
      IN l.type = "jq" =>
           /\ Len(r.issues) <= Len(l.rules)
           /\ IsSubSeq(r.issues, EntryFindings(l, u.seen))

\* C18 witness: over two documents the entry that yields one value per
\* document has exactly one finding on the first document
C18_Witness ==
    /\ pc = "returned"
    /\ runErr = NoError
    /\ Len(input) = 2
    /\ Len(JqRun(ExprEachKind, input, input[1])) = 2
    /\ Cardinality({i \in 1..Len(result) :
                      /\ result[i].Message = <<"one per document">>
                      /\ result[i].Resource = ResourceRef(input[1])}) = 1
    /\ input[1] # input[2]

\* every expression of the rule parses and compiles
WellFormed(l) ==
    \A k \in 1..Len(l.rules) : JqParse(l.rules[k].Expression) /\ JqCompile(l.rules[k].Expression)

ParseOrCompileError(err) ==
    /\ err # NoError
    /\ err[1] \in {"failed to parse jq expression %q: %w",
                   "failed to compile jq expression %q: %w"}

\* C19: Configure of an expression rule rejects an entry whose expression
\* does not parse or compile: a rule that a Configure call of NewRunner
\* accepted is well-formed, and no Lint call fails with a parse or compile
\* error.
C19_MalformedRejectedAtConfigure ==
    /\ \A i \in 1..Len(calls) :
         (calls[i].ok /\ calls[i].name \in DOMAIN registry
          /\ registry[calls[i].name].type = "jq") => WellFormed(registry[calls[i].name])
    /\ \A i \in 1..Len(units) : ~ParseOrCompileError(UnitLint(units[i]).err)

\* C20: every Lint call of a run is given the document list that was handed
\* to Run, whole and in its order, and the document of the unit is the
\* element of that list at the unit's position; an expression rule
\* evaluates each entry with $objects bound to that list and $object to
\* that document, so its findings are those of the entries that fire on
\* (input, input[d]).
C20_AllObjectsInContext ==
    pc = "lint" =>
      LET u == units[Len(units)]
          l == registry[u.linter]
          r == UnitLint(u)
      IN /\ u.all = input
         /\ u.doc \in 1..Len(input)
         /\ u.seen = u.all[u.doc]
         /\ (l.type = "jq" /\ r.err = NoError) =>
              r.issues = ExpectedFindings(l, 1, input, input[u.doc])

\* C20 witness: a document that carries the app label gets the finding of
\* the entry that looks for an unlabelled document in $objects, because the
\* other document of the run has no label
C20_Witness ==
    /\ pc = "returned"
    /\ Len(input) = 2
    /\ \E i \in 1..Len(result) :
         /\ result[i].Message = <<"some document has no app label">>
         /\ result[i].Resource.Name = "cfg-a"
    /\ \E d \in 1..Len(input) : input[d].name = "cfg-a" /\ "app" \in input[d].labels

\* does the document list hold a ConfigMap of the name
HasConfigMap(objs, n) ==
    \E j \in 1..Len(objs) : objs[j].kind = "ConfigMap" /\ objs[j].name = n

\* the Finding of configmap-exists on a Deployment that references a
\* ConfigMap the document list does not hold
RECURSIVE MissingConfigMapFindings(_, _)
MissingConfigMapFindings(objs, d) ==
    IF d > Len(objs) THEN <<>>
    ELSE LET obj == objs[d]
             missing == /\ obj.kind = "Deployment"
                        /\ \E i \in 1..Len(obj.configMaps) :
                              ~HasConfigMap(objs, obj.configMaps[i])
         IN (IF missing
             THEN <<Issue(SeverityError, "configmap-exists",
                          <<"Referenced ConfigMap does not exist">>, obj,
                          <<"spec.template.spec.volumes">>,
                          "Ensure the ConfigMap is defined or create it")>>
             ELSE <<>>)
            \o MissingConfigMapFindings(objs, d + 1)

\* C21: with the configmap-exists rule active, a run that returns without
\* error returns one error-severity Finding for each Deployment that
\* references a ConfigMap missing from the document list of that run, on
\* that Deployment, and no other Finding of the rule: one for a Deployment
\* that references cfg-a in a list without a ConfigMap cfg-a, none once the
\* list of a following run holds that ConfigMap.
C21_CrossDocumentCheck ==
    (pc = "returned" /\ runErr = NoError /\ runner.linters = <<"configmap-exists">>) =>
      result = MissingConfigMapFindings(input, 1)

\* C21 witness: the second run of the process, on the Deployment and the
\* ConfigMap cfg-a, returned no Finding; the rule it ran is the one that
\* reports the Deployment alone
C21_Witness ==
    /\ pc = "returned"
    /\ runs = 2
    /\ runErr = NoError
    /\ runner.linters = <<"configmap-exists">>
    /\ input = <<DeployWeb, CmA>>
    /\ result = <<>>
    /\ Len(MissingConfigMapFindings(<<DeployWeb>>, 1)) = 1
    /\ MissingConfigMapFindings(<<DeployWeb>>, 1)[1].Severity = SeverityError
    /\ MissingConfigMapFindings(<<DeployWeb>>, 1)[1].Resource = ResourceRef(DeployWeb)

\* the values of Severity that types.go declares
Severities == {SeverityFatal, SeverityError, SeverityWarning, SeverityInfo}

\* C22: every Finding a run returns has a severity among fatal, error,
\* warning and info, whatever rule configuration NewRunner accepted.
C22_SeverityInvariant ==
    pc = "returned" => \A i \in 1..Len(result) : result[i].Severity \in Severities

\* the path of the containers of a kind in the Kubernetes API
KindPath(kind) ==
    CASE kind = "Pod" -> PodPath
      [] kind = "CronJob" -> CronJobPath
      [] kind \in {"Deployment", "StatefulSet", "DaemonSet", "Job"} -> TemplatePath
      [] OTHER -> <<>>

\* C23: GetContainers returns the containers that sit at the path of the
\* document's kind (Pod: spec.containers; CronJob: under the job template's
\* pod template; the other pod-template kinds: spec.template.spec), and for
\* a document of any other kind it returns zero containers and no error.
C23_GetContainersDispatch ==
    invoked.fn = "GetContainers" =>
      LET obj == invoked.obj IN
        /\ (KindPath(obj.kind) # <<>> /\ obj.cpath = KindPath(obj.kind)) =>
             (yielded.err = NoError /\ yielded.containers = obj.containers)
        /\ KindPath(obj.kind) = <<>> =>
             (yielded.err = NoError /\ yielded.containers = <<>>)

\* a document of one of the kinds, with its pod template where the
\* Kubernetes API puts it and objects on the way to it
WellFormedWorkload(obj) ==
    /\ KindPath(obj.kind) # <<>>
    /\ obj.cpath = KindPath(obj.kind)
    /\ obj.scalarAt = <<>>

CountFor(found, i, format) ==
    Cardinality({k \in 1..Len(found) : found[k].Field[2] = i /\ found[k].Message[1] = format})

\* the number of Findings of a call for container i
CountOf(found, i) == Cardinality({k \in 1..Len(found) : found[k].Field[2] = i})

Need(flag, key, have) == IF flag /\ key \notin have THEN 1 ELSE 0

Rejected(e) ==
    \/ e.t # "object"
    \/ ~IsString(e.m, "expression")
    \/ ~IsString(e.m, "message")

\* the entry an accepted element stands for
RuleOf(e) ==
    [Expression |-> e.m["expression"].v,
     Message |-> e.m["message"].v,
     Severity |-> IF IsString(e.m, "severity") THEN e.m["severity"].v ELSE SeverityError,
     Field |-> IF IsString(e.m, "field") THEN e.m["field"].v ELSE "",
     Suggestion |-> IF IsString(e.m, "suggestion") THEN e.m["suggestion"].v ELSE ""]

\* C30: a Configure of an expression rule that fails because
\* settings["rules"] is not an array leaves the entry list unchanged; one
\* that fails at entry i leaves exactly the entries 0..i-1 of the rejected
\* settings, the previous list is gone; one that succeeds leaves exactly the
\* entries of the settings, in order.
C30_StateAfterConfigure ==
    invoked.fn = "Configure" =>
      LET old == invoked.l.rules
          st == invoked.settings
          new == yielded.l.rules
      IN IF ~IsArray(st, "rules")
         THEN yielded.err # NoError /\ new = old
         ELSE LET es == st["rules"].a
                  bad == {i \in 0..(Len(es) - 1) : Rejected(es[i + 1])}
              IN IF bad = {}
                 THEN /\ yielded.err = NoError
                      /\ new = [k \in 1..Len(es) |-> RuleOf(es[k])]
                 ELSE LET i == CHOOSE j \in bad : \A m \in bad : j <= m
                      IN /\ yielded.err # NoError
                         /\ yielded.err[2] = i
                         /\ new = [k \in 1..i |-> RuleOf(es[k])]

\* C30 witness: Configure failed at entry 1 on an instance that held two
\* entries, and the instance holds entry 0 of the rejected settings alone
C30_Witness ==
    /\ invoked.fn = "Configure"
    /\ Len(invoked.l.rules) = 2
    /\ yielded.err = <<"rule %d: message is required", 1>>
    /\ Len(yielded.l.rules) = 1
    /\ yielded.l.rules[1].Message = "new"

\* the steps of the setup of a run, and the step that evaluates
SetupStages == {"Load", "Validate", "NewFromSource", "Render", "NewRunner"}

\* the exit codes by which a run without error reports Findings
FindingsCodes ==
    {Main("none", found, w) : found \in FindingLists, w \in BOOLEAN} \ {ExitSuccess}

\* C25: the exit code of a run that failed in setup differs from the exit
\* code of a run that failed in evaluation, and both differ from every exit
\* code by which a run reports Findings.
C25_ExitCodeSeparation ==
    invoked.fn = "main" =>
      /\ invoked.failing \in SetupStages =>
           /\ yielded # Main("Run", invoked.found, invoked.failOnWarning)
           /\ yielded \notin FindingsCodes
      /\ invoked.failing = "Run" => yielded \notin FindingsCodes

\* C26: after a run without error the exit code follows the severities of
\* the Findings with fixed precedence: a fatal Finding gives 2, else an error
\* Finding gives 1, else a warning Finding with --fail-on-warning gives 4,
\* else 0; info Findings, and warnings without the flag, give 0.
C26_ExitCodeFromFindings ==
    (invoked.fn = "main" /\ invoked.failing = "none") =>
      LET Has(sev) == \E i \in 1..Len(invoked.found) : invoked.found[i].Severity = sev
      IN yielded = IF Has(SeverityFatal) THEN ExitFatal
                   ELSE IF Has(SeverityError) THEN ExitErrors
                   ELSE IF Has(SeverityWarning) /\ invoked.failOnWarning THEN ExitWarnings
                   ELSE ExitSuccess

\* C26 witness: a run that returned a fatal and an error Finding ended with
\* the exit code of the fatal one
C26_Witness ==
    /\ invoked.fn = "main"
    /\ invoked.failing = "none"
    /\ \E i, j \in 1..Len(invoked.found) :
          /\ invoked.found[i].Severity = SeverityError
          /\ invoked.found[j].Severity = SeverityFatal
    /\ yielded = ExitFatal

\* the instance a name holds when the custom declarations NewRunner got
\* through are registered over the registry before
AfterDecls(before, n, decls, last) ==
    IF last # 0 THEN DeclInstance(decls[last]) ELSE before[n]

\* C28: a NewRunner that fails leaves in the registry what it did before it
\* failed.  Failing at a custom declaration, it leaves the declarations
\* before that one registered, over a built-in of the same name too, and
\* nothing else changed; failing at Configure of an active rule, it leaves
\* all declarations registered and every rule it configured earlier in name
\* order with the new settings applied.  The next run works on that registry.
C28_FailedSetupNotRolledBack ==
    [][(pc = "idle" /\ pc' = "failed") =>
         /\ \A n \in DOMAIN registry : n \in DOMAIN registry'
         /\ \A k \in 1..GoodPrefix' : Decls'[k].Name \in DOMAIN registry'
         /\ BadDecls' # {} =>
              \A n \in DOMAIN registry' : registry'[n] = AfterDecls(registry, n, Decls', LastDecl(n)')
         /\ BadDecls' = {} =>
              \A n \in DOMAIN registry' :
                LET failed == setupErr'[2] IN
                  /\ (n \in Configurable' /\ NameRank(n) < NameRank(failed)) =>
                       registry'[n] =
                         Configure(AfterDecls(registry, n, Decls', LastDecl(n)'),
                                   config'.Settings[n]).l
                  /\ (n \notin Configurable' \/ NameRank(n) > NameRank(failed)) =>
                       registry'[n] = AfterDecls(registry, n, Decls', LastDecl(n)')
      ]_vars

\* C28 witness: a run evaluates the custom rule with the entry that only a
\* NewRunner which then failed at the built-in jq has configured
C28_Witness ==
    /\ pc = "returned"
    /\ runs = 2
    /\ Decls = <<>>
    /\ "cm-check" \notin DOMAIN config.Settings
    /\ \E i \in 1..Len(result) :
         result[i].Linter = "cm-check" /\ result[i].Message = <<"late">>

\* does the evaluation of the entry on the document end in an error: the
\* expression does not parse or compile, or its result stream holds an error
\* value with only null and false before it
EntryFails(rule, allObjects, obj) ==
    \/ ~JqParse(rule.Expression)
    \/ ~JqCompile(rule.Expression)
    \/ LET stream == JqRun(rule.Expression, allObjects, obj) IN
         \E i \in 1..Len(stream) :
           /\ stream[i] \in JqErrors
           /\ \A j \in 1..(i - 1) : stream[j] \in {"null", "false"}

\* C29: the Lint of an expression rule returns an error exactly when the
\* evaluation of one of its entries ends in an error, which an error value
\* after the first value other than null and false never does; with the
\* error it returns no Finding, also not of the entries that fired before,
\* so what Run returns on failure holds no Finding of the failing rule on
\* the failing document.
C29_NoFindingsOnError ==
    /\ pc = "lint" =>
         LET u == units[Len(units)]
             l == registry[u.linter]
             r == UnitLint(u)
         IN l.type = "jq" =>
              /\ r.err # NoError <=>
                   \E k \in 1..Len(l.rules) : EntryFails(l.rules[k], u.all, u.seen)
              /\ r.err # NoError => r.issues = <<>>
    /\ (pc = "returned" /\ runErr # NoError) =>
         LET u == units[Len(units)] IN
           \A i \in 1..Len(result) :
             ~(result[i].Linter = u.linter /\ result[i].Resource = ResourceRef(u.seen))

\* C29 witness: a run failed at the second entry of an expression rule on a
\* document on which the first entry has a truthy result
C29_Witness ==
    /\ pc = "returned"
    /\ runErr # NoError
    /\ LET u == units[Len(units)]
           l == registry[u.linter]
       IN /\ l.type = "jq"
          /\ Len(l.rules) = 2
          /\ Fires(JqRun(l.rules[1].Expression, u.all, u.seen))
          /\ EntryFails(l.rules[2], u.all, u.seen)
          /\ \A i \in 1..Len(result) : result[i].Resource # ResourceRef(u.seen)

====
